---- MODULE Spec2Model ----
(***************************************************************************)
(* Filter-builder store (createFilterStore), its six mutation operations   *)
(* (hooks/useFilters.js), the JSON Logic serializer (lib/filterSerializer) *)
(* and the FilterBuilder import handlers.                                  *)
(*                                                                         *)
(* A store value is the record                                             *)
(*   [filters, groups, rootGroup, filterCounter, groupCounter]             *)
(* holding the values of the signals of the same names.  Every operation   *)
(* of the source is an operator from a store value (and its arguments) to  *)
(* the store value it leaves behind; the actions apply these operators to  *)
(* the variables.                                                          *)
(***************************************************************************)
EXTENDS Integers, Sequences, FiniteSets, TLC

VARIABLES
    filters,        \* store.filters.value : sequence of filter records
    groups,         \* store.groups.value  : function  group id -> group
    rootGroup,      \* store.rootGroup.value
    filterCounter,  \* store.filterCounter.value
    groupCounter,   \* store.groupCounter.value
    pending,        \* reads started and not completed: [via, text, started (the store then)]
    last,           \* the operation that produced this state, with its arguments
    pre,            \* the store value the last operation started from
    issued,         \* the values getNextFilterId and getNextGroupId have returned, in order
    held,           \* references readers took: [field, stamp, taken, sees (what it shows now)]
    budget          \* operations still to be explored in this behaviour

vars == <<filters, groups, rootGroup, filterCounter, groupCounter, pending, last, pre,
          issued, held, budget>>

(***************************************************************************)
(* Bounds of the model.                                                    *)
(***************************************************************************)
MaxOps == 4         \* operations in one behaviour of Spec
MaxOpsValid == 5    \* operations in one behaviour of SpecOps
MaxPending == 1     \* asynchronous reads in flight at one time
MaxGroupIndex == 40 \* largest n for which the text 'group-n' is recognised
MaxPureOps == 2     \* calls in one behaviour of SpecSerialize and SpecDeserialize
MaxStartCounter == 2    \* the counters of the store at the start of SpecDeserialize: 0..MaxStartCounter
MaxRowOps == 4          \* operations in one behaviour of SpecRows
MaxSteps == 4           \* assignments in one behaviour of SpecSteps
MaxHeld == 1            \* references a reader holds in SpecSteps
MaxEntries == 8         \* calls one recursion is followed through

(***************************************************************************)
(* Generic helpers.                                                        *)
(***************************************************************************)
Range(seq) == {seq[i] : i \in DOMAIN seq}

\* { ...obj, [key]: value } on an object used as a map
PutKey(obj, key, value) ==
    [k \in DOMAIN obj \cup {key} |-> IF k = key THEN value ELSE obj[k]]

\* delete obj[key] on a copy
DeleteKey(obj, key) == [k \in DOMAIN obj \ {key} |-> obj[k]]

\* { ...f, ...updates }
Merge(f, updates) ==
    [k \in DOMAIN f \cup DOMAIN updates |->
        IF k \in DOMAIN updates THEN updates[k] ELSE f[k]]

EmptyMap == [k \in {} |-> k]

\* The one element of a singleton.  Pick({ e(r) : r \in {v} }) is e(v), with v
\* computed once: this is how the result of a call that is used several times
\* (`const r = f(...)`) is written.
Pick(S) == CHOOSE v \in S : TRUE

(***************************************************************************)
(* JavaScript values.  A filter's type and predicate are strings and its   *)
(* id a number; a `ref` may be any primitive, so it is tagged with its     *)
(* type.  A JSON object is a record with the object's keys, an array is a  *)
(* tagged sequence, and null is a tagged value.                            *)
(***************************************************************************)
Str(s) == [str |-> s]
Num(n) == [num |-> n]
Arr(seq) == [array |-> seq]
Null == [null |-> TRUE]
Undefined == [undefined |-> TRUE]

IsNull(v) == "null" \in DOMAIN v
IsUndefined(v) == "undefined" \in DOMAIN v
IsArray(v) == "array" \in DOMAIN v

\* whether `if (v)` takes the branch: objects and arrays are truthy
Truthy(v) ==
    /\ ~ IsNull(v)
    /\ ~ IsUndefined(v)
    /\ "str" \in DOMAIN v => v.str # ""
    /\ "num" \in DOMAIN v => v.num # 0

\* obj.key, taken as a condition
HasTruthy(obj, key) == key \in DOMAIN obj /\ Truthy(obj[key])

\* String(v)
String(v) ==
    IF "str" \in DOMAIN v THEN v
    ELSE IF "num" \in DOMAIN v THEN Str(ToString(v.num))
    ELSE IF IsNull(v) THEN Str("null")
    ELSE Str("undefined")

\* a one-key object { [key]: value }
Obj(key, value) == [k \in {key} |-> value]

(***************************************************************************)
(* store.js                                                                *)
(***************************************************************************)
\* The schema handed to createFilterStore.
filterSchema ==
    << [name |-> "count",  relations |-> <<"<", "<=">>,  valueType |-> "int"],
       [name |-> "status", relations |-> <<"==", "!=">>, valueType |-> "string"] >>

EmptyRoot == [id |-> "root", connector |-> "AND", items |-> <<>>]

createFilterStore ==
    [filters |-> <<>>, groups |-> EmptyMap, rootGroup |-> EmptyRoot,
     filterCounter |-> 0, groupCounter |-> 0]

\* `group-${n}`
GroupIdText(n) == "group-" \o ToString(n)

\* getNextFilterId without `store.filterCounter.value += 1`
getNextFilterIdStuck(s) ==
    [id |-> s.filterCounter, store |-> s]

\* getNextFilterId: the id returned, and the store after the increment
getNextFilterId(s) ==
    [id |-> s.filterCounter, store |-> [s EXCEPT !.filterCounter = @ + 1]]

\* getNextGroupId without `store.groupCounter.value = id + 1`
getNextGroupIdStuck(s) ==
    [id |-> GroupIdText(s.groupCounter), store |-> s]

getNextGroupId(s) ==
    [id |-> GroupIdText(s.groupCounter), store |-> [s EXCEPT !.groupCounter = @ + 1]]

resetFilters(s) ==
    [s EXCEPT !.filters = <<>>, !.groups = EmptyMap, !.rootGroup = EmptyRoot,
              !.filterCounter = 0, !.groupCounter = 0]

getDefaultFilterType ==
    IF Len(filterSchema) > 0 THEN filterSchema[1].name ELSE ""

\* filterSchema.value.find(s => s.name === filterType): index of the first match, 0 if none
FindSchema(filterType) ==
    IF \E i \in DOMAIN filterSchema : filterSchema[i].name = filterType
    THEN CHOOSE i \in DOMAIN filterSchema :
            /\ filterSchema[i].name = filterType
            /\ \A j \in DOMAIN filterSchema : filterSchema[j].name = filterType => i <= j
    ELSE 0

getDefaultPredicate(filterType) ==
    LET i == FindSchema(filterType) IN
    IF i # 0 /\ Len(filterSchema[i].relations) > 0
    THEN filterSchema[i].relations[1] ELSE "<"

getRelationsForType(filterType) ==
    LET i == FindSchema(filterType) IN
    IF i # 0 THEN filterSchema[i].relations ELSE <<>>

(***************************************************************************)
(* hooks/useFilters.js                                                     *)
(***************************************************************************)
FilterItem(id) == [type |-> "filter", id |-> id]
GroupItem(id) == [type |-> "group", id |-> id]

IsFilterItem(item, id) == item.type = "filter" /\ item.id = id
IsGroupItem(item, id) == item.type = "group" /\ item.id = id

AppendItem(group, item) == [group EXCEPT !.items = Append(@, item)]

\* createGroup without the `if (parentGroupId === groupId)` guard
createGroupNoGuard(s, parentGroupId, connector) ==
    LET n  == getNextGroupId(s)
        groupId == n.id
        newGroup == [id |-> groupId, connector |-> connector, items |-> <<>>]
        s2 == [n.store EXCEPT !.groups = PutKey(@, groupId, newGroup)]
    IN  IF parentGroupId = "root"
        THEN [ret |-> groupId,
              store |-> [s2 EXCEPT !.rootGroup = AppendItem(@, GroupItem(groupId))]]
        ELSE IF parentGroupId \in DOMAIN s2.groups
        THEN [ret |-> groupId,
              store |-> [s2 EXCEPT !.groups =
                            PutKey(@, parentGroupId,
                                   AppendItem(s2.groups[parentGroupId], GroupItem(groupId)))]]
        ELSE [ret |-> groupId, store |-> s2]

\* createGroup: [ret |-> new group id or "null", store |-> store afterwards]
createGroup(s, parentGroupId, connector) ==
    LET n  == getNextGroupId(s)
        groupId == n.id
        s1 == n.store
        newGroup == [id |-> groupId, connector |-> connector, items |-> <<>>]
        s2 == [s1 EXCEPT !.groups = PutKey(@, groupId, newGroup)]
    IN  IF parentGroupId = groupId
        THEN [ret |-> "null", store |-> s1]
        ELSE IF parentGroupId = "root"
        THEN [ret |-> groupId,
              store |-> [s2 EXCEPT !.rootGroup = AppendItem(@, GroupItem(groupId))]]
        ELSE IF parentGroupId \in DOMAIN s2.groups
        THEN [ret |-> groupId,
              store |-> [s2 EXCEPT !.groups =
                            PutKey(@, parentGroupId,
                                   AppendItem(s2.groups[parentGroupId], GroupItem(groupId)))]]
        ELSE [ret |-> groupId, store |-> s2]

\* addFilterToGroup without the line `filter.groupId = newGroupId`
KeepGroupId(fs, newGroupId) == fs

\* filter.groupId = newGroupId: the object is the one just appended to store.filters
SetGroupIdInPlace(fs, newGroupId) ==
    [i \in DOMAIN fs |-> IF i = Len(fs) THEN [fs[i] EXCEPT !.groupId = newGroupId] ELSE fs[i]]

\* addFilterToGroup without the `if (store.rootGroup.value.items.length === 0)` case
addFilterToGroupNoAutoGroup(s, groupId) ==
    LET n  == getNextFilterId(s)
        filterId == n.id
        defaultType == getDefaultFilterType
        filter == [id |-> filterId, type |-> defaultType,
                   predicate |-> getDefaultPredicate(defaultType),
                   ref |-> Str(""), groupId |-> groupId]
        s1 == [n.store EXCEPT !.filters = Append(@, filter)]
    IN  IF groupId = "root"
        THEN [ret |-> filterId,
              store |-> [s1 EXCEPT !.rootGroup = AppendItem(@, FilterItem(filterId))]]
        ELSE IF groupId \in DOMAIN s1.groups
        THEN [ret |-> filterId,
              store |-> [s1 EXCEPT !.groups =
                            PutKey(@, groupId,
                                   AppendItem(s1.groups[groupId], FilterItem(filterId)))]]
        ELSE [ret |-> filterId, store |-> s1]

\* addFilterToGroup: [ret |-> the filter id, store |-> store afterwards]
addFilterToGroup(s, groupId) ==
    LET n  == getNextFilterId(s)
        filterId == n.id
        defaultType == getDefaultFilterType
        filter == [id |-> filterId, type |-> defaultType,
                   predicate |-> getDefaultPredicate(defaultType),
                   ref |-> Str(""), groupId |-> groupId]
        s1 == [n.store EXCEPT !.filters = Append(@, filter)]
        toRoot(t) == [t EXCEPT !.rootGroup = AppendItem(@, FilterItem(filterId))]
    IN  IF groupId = "root"
        THEN IF Len(s1.rootGroup.items) = 0
             THEN LET c == createGroup(s1, "root", "AND") IN
                  IF c.ret # "null"
                  THEN IF c.ret \in DOMAIN c.store.groups
                       THEN [ret |-> filterId,
                             store |-> [c.store EXCEPT
                                 !.groups = PutKey(@, c.ret,
                                     AppendItem(c.store.groups[c.ret], FilterItem(filterId))),
                                 !.filters = SetGroupIdInPlace(@, c.ret)]]
                       ELSE [ret |-> filterId, store |-> toRoot(c.store)]
                  ELSE [ret |-> filterId, store |-> toRoot(c.store)]
             ELSE [ret |-> filterId, store |-> toRoot(s1)]
        ELSE IF groupId \in DOMAIN s1.groups
        THEN [ret |-> filterId,
              store |-> [s1 EXCEPT !.groups =
                            PutKey(@, groupId,
                                   AppendItem(s1.groups[groupId], FilterItem(filterId)))]]
        ELSE [ret |-> filterId, store |-> s1]

\* removeFromGroup helper of removeFilter
removeFromGroup(group, itemId) ==
    LET Keep(item) == ~ IsFilterItem(item, itemId)
    IN  [group EXCEPT !.items = SelectSeq(@, Keep)]

\* removeFilter without the loop over Object.entries(store.groups.value)
removeFilterRootOnly(s, filterId) ==
    LET KeepF(f) == f.id # filterId
    IN  [s EXCEPT !.filters = SelectSeq(@, KeepF),
                  !.rootGroup = removeFromGroup(@, filterId)]

removeFilter(s, filterId) ==
    LET KeepF(f) == f.id # filterId
    IN  [s EXCEPT !.filters = SelectSeq(@, KeepF),
                  !.rootGroup = removeFromGroup(@, filterId),
                  !.groups = [id \in DOMAIN s.groups |-> removeFromGroup(s.groups[id], filterId)]]

\* removeGroup without the two passes that strip the references to the removed group
StripNoGroupRef(group, groupId) == group

\* strips { type: 'group', id: groupId } from a group's items
StripGroupRef(group, groupId) ==
    LET Keep(item) == ~ IsGroupItem(item, groupId)
    IN  [group EXCEPT !.items = SelectSeq(@, Keep)]

RECURSIVE removeGroup(_, _)
RECURSIVE RemoveGroupItems(_, _)

\* the forEach without its `else if (item.type === 'group')` branch
RemoveFilterItemsOnly(s, items) ==
    LET ids == {items[i].id : i \in {j \in DOMAIN items : items[j].type = "filter"}}
        KeepF(f) == f.id \notin ids
    IN  [s EXCEPT !.filters = SelectSeq(@, KeepF)]

\* the forEach over the items of the group being removed
RemoveGroupItems(s, items) ==
    IF items = <<>> THEN s
    ELSE LET item == Head(items)
             KeepF(f) == f.id # item.id
             s1 == IF item.type = "filter"
                   THEN [s EXCEPT !.filters = SelectSeq(@, KeepF)]
                   ELSE IF item.type = "group"
                   THEN removeGroup(s, item.id)
                   ELSE s
         IN  RemoveGroupItems(s1, Tail(items))

\* a removeGroup that looks 'root' up in store.rootGroup and empties it like any group
removeGroupOrRoot(s, groupId) ==
    LET s1 == IF groupId = "root"
              THEN [RemoveGroupItems(s, s.rootGroup.items) EXCEPT !.rootGroup.items = <<>>]
              ELSE IF groupId \in DOMAIN s.groups
              THEN RemoveGroupItems(s, s.groups[groupId].items)
              ELSE s
        s2 == [s1 EXCEPT !.groups = DeleteKey(@, groupId)]
        s3 == [s2 EXCEPT !.rootGroup = StripGroupRef(@, groupId)]
    IN  [s3 EXCEPT !.groups = [id \in DOMAIN s3.groups |-> StripGroupRef(s3.groups[id], groupId)]]

removeGroup(s, groupId) ==
    LET s1 == IF groupId \in DOMAIN s.groups
              THEN RemoveGroupItems(s, s.groups[groupId].items)
              ELSE s
        s2 == [s1 EXCEPT !.groups = DeleteKey(@, groupId)]
        s3 == [s2 EXCEPT !.rootGroup = StripGroupRef(@, groupId)]
    IN  [s3 EXCEPT !.groups = [id \in DOMAIN s3.groups |-> StripGroupRef(s3.groups[id], groupId)]]

\* the connector expression of toggleGroupConnector replaced by 'OR'
FlipToOr(connector) == "OR"

\* the connector expression of toggleGroupConnector replaced by the connector itself
FlipNever(connector) == connector

Flip(connector) == IF connector = "AND" THEN "OR" ELSE "AND"

\* toggleGroupConnector without `if (group)`: an entry is written under any id
toggleGroupConnectorUnguarded(s, groupId) ==
    IF groupId = "root"
    THEN [s EXCEPT !.rootGroup.connector = Flip(@)]
    ELSE LET group == IF groupId \in DOMAIN s.groups THEN s.groups[groupId]
                      ELSE [id |-> groupId, connector |-> "AND", items |-> <<>>]
         IN  [s EXCEPT !.groups = PutKey(@, groupId, [group EXCEPT !.connector = Flip(@)])]

toggleGroupConnector(s, groupId) ==
    IF groupId = "root"
    THEN [s EXCEPT !.rootGroup.connector = Flip(@)]
    ELSE IF groupId \in DOMAIN s.groups
    THEN [s EXCEPT !.groups = PutKey(@, groupId,
                        [s.groups[groupId] EXCEPT !.connector = Flip(@)])]
    ELSE s

\* updateFilter without the test `f.id === filterId`
updateFilterEvery(s, filterId, updates) ==
    [s EXCEPT !.filters = [i \in DOMAIN s.filters |-> Merge(s.filters[i], updates)]]

updateFilter(s, filterId, updates) ==
    [s EXCEPT !.filters =
        [i \in DOMAIN s.filters |->
            IF s.filters[i].id = filterId THEN Merge(s.filters[i], updates) ELSE s.filters[i]]]

(***************************************************************************)
(* lib/filterSerializer.js : serializeFiltersToJsonLogic                   *)
(***************************************************************************)
\* the keys of operatorMap
Predicates == {"<", "<=", ">", ">=", "==", "!="}

\* filters.find(f => f.id === id): index of the first match, 0 if there is none
FindFilter(fs, id) ==
    IF \E i \in DOMAIN fs : fs[i].id = id
    THEN CHOOSE i \in DOMAIN fs :
            /\ fs[i].id = id
            /\ \A j \in DOMAIN fs : fs[j].id = id => i <= j
    ELSE 0

\* filterToJsonLogic with the `id` line left out of the condition
filterToJsonLogicNoId(filter) ==
    IF \/ filter.type = ""
       \/ filter.predicate = ""
       \/ filter.ref = Str("")
       \/ IsNull(filter.ref)
       \/ IsUndefined(filter.ref)
       \/ filter.predicate \notin Predicates
    THEN Null
    ELSE [filter_condition |->
            [type |-> filter.type, predicate |-> filter.predicate,
             ref |-> String(filter.ref)]]

filterToJsonLogic(filter) ==
    IF \/ filter.type = ""
       \/ filter.predicate = ""
       \/ filter.ref = Str("")
       \/ IsNull(filter.ref)
       \/ IsUndefined(filter.ref)
    THEN Null
    ELSE IF filter.predicate \notin Predicates
    THEN Null
    ELSE [filter_condition |->
            [type |-> filter.type, predicate |-> filter.predicate,
             ref |-> String(filter.ref), id |-> filter.id]]

RECURSIVE groupToJsonLogic(_, _, _)
RECURSIVE GroupConditions(_, _, _)

\* the loop with `conditions.unshift(condition)` in place of `conditions.push(condition)`
GroupConditionsUnshift(fs, gs, items) ==
    IF items = <<>> THEN <<>>
    ELSE LET item == Head(items)
             one ==
                IF item.type = "filter"
                THEN LET i == FindFilter(fs, item.id) IN
                     IF i # 0 /\ ~ IsNull(filterToJsonLogic(fs[i]))
                     THEN <<filterToJsonLogic(fs[i])>> ELSE <<>>
                ELSE IF item.type = "group" /\ item.id \in DOMAIN gs
                THEN LET c == groupToJsonLogic(fs, gs, gs[item.id]) IN
                     IF ~ IsNull(c) THEN <<c>> ELSE <<>>
                ELSE <<>>
         IN  GroupConditions(fs, gs, Tail(items)) \o one

\* the loop of groupToJsonLogic over group.items: the conditions pushed, in order
GroupConditions(fs, gs, items) ==
    IF items = <<>> THEN <<>>
    ELSE LET item == Head(items)
             one ==
                IF item.type = "filter"
                THEN LET i == FindFilter(fs, item.id) IN
                     IF i # 0 /\ ~ IsNull(filterToJsonLogic(fs[i]))
                     THEN <<filterToJsonLogic(fs[i])>> ELSE <<>>
                ELSE IF item.type = "group" /\ item.id \in DOMAIN gs
                THEN LET c == groupToJsonLogic(fs, gs, gs[item.id]) IN
                     IF ~ IsNull(c) THEN <<c>> ELSE <<>>
                ELSE <<>>
         IN  one \o GroupConditions(fs, gs, Tail(items))

\* groupToJsonLogic with `group.id === 'root' &&` left out of the elision test
groupToJsonLogicElideAny(fs, gs, group) ==
    IF Len(group.items) = 0 THEN Null
    ELSE LET conditions == GroupConditions(fs, gs, group.items) IN
         IF Len(conditions) = 0 THEN Null
         ELSE IF /\ Len(conditions) = 1
                 /\ HasTruthy(conditions[1], "filter_condition")
         THEN conditions[1]
         ELSE Obj(IF group.connector = "OR" THEN "or" ELSE "and", Arr(conditions))

groupToJsonLogic(fs, gs, group) ==
    IF Len(group.items) = 0 THEN Null
    ELSE LET conditions == GroupConditions(fs, gs, group.items) IN
         IF Len(conditions) = 0 THEN Null
         ELSE IF /\ group.id = "root"
                 /\ Len(conditions) = 1
                 /\ HasTruthy(conditions[1], "filter_condition")
         THEN conditions[1]
         ELSE Obj(IF group.connector = "OR" THEN "or" ELSE "and", Arr(conditions))

serializeFiltersToJsonLogic(fs, root, gs) ==
    IF Len(root.items) = 0 THEN Null ELSE groupToJsonLogic(fs, gs, root)

(***************************************************************************)
(* lib/filterSerializer.js : deserializeFiltersFromJsonLogic               *)
(*                                                                         *)
(* The closure state of one call is the record                             *)
(*   [filters, groups, order, filterCounter, groupCounter]                 *)
(* : the `filters` array and `groups` object being built, the insertion    *)
(* order of the keys of `groups`, and the counters behind the              *)
(* getNextFilterId and getNextGroupId passed in.                           *)
(***************************************************************************)
\* c && typeof c === 'object' && (c.and || c.or)
IsConnectorLike(c) == Truthy(c) /\ (HasTruthy(c, "and") \/ HasTruthy(c, "or"))

\* extractFilter calling getNextFilterId before it looks at fc.id
extractFilterEager(condition, cx) ==
    LET fc == condition.filter_condition
        fresh == "id" \notin DOMAIN fc
    IN  [filter |-> [id |-> IF fresh THEN cx.filterCounter ELSE fc.id,
                     type |-> fc.type,
                     predicate |-> fc.predicate,
                     ref |-> String(IF "ref" \in DOMAIN fc THEN fc.ref ELSE Undefined),
                     groupId |-> "root"],
         cx |-> [cx EXCEPT !.filterCounter = @ + 1]]

\* extractFilter with `id: getNextFilterId()` whatever fc.id is
extractFilterFreshId(condition, cx) ==
    LET fc == condition.filter_condition
    IN  [filter |-> [id |-> cx.filterCounter,
                     type |-> fc.type,
                     predicate |-> fc.predicate,
                     ref |-> String(IF "ref" \in DOMAIN fc THEN fc.ref ELSE Undefined),
                     groupId |-> "root"],
         cx |-> [cx EXCEPT !.filterCounter = @ + 1]]

\* extractFilter, for a condition that has a filter_condition
extractFilter(condition, cx) ==
    LET fc == condition.filter_condition
        fresh == "id" \notin DOMAIN fc
    IN  [filter |-> [id |-> IF fresh THEN cx.filterCounter ELSE fc.id,
                     type |-> fc.type,
                     predicate |-> fc.predicate,
                     ref |-> String(IF "ref" \in DOMAIN fc THEN fc.ref ELSE Undefined),
                     groupId |-> "root"],
         cx |-> IF fresh THEN [cx EXCEPT !.filterCounter = @ + 1] ELSE cx]

RECURSIVE jsonLogicToGroup(_, _, _)
RECURSIVE ConvertConditions(_, _, _, _)

\* the loops with items.unshift(item) for items.push(item)
ConvertConditionsUnshift(conditions, groupId, nested, cx) ==
    IF conditions = <<>> THEN [items |-> <<>>, cx |-> cx]
    ELSE Pick({ Pick({ [items |-> rest.items
                                      \o (IF IsNull(r.result) THEN <<>> ELSE <<r.result>>),
                        cx |-> rest.cx]
                       : rest \in {ConvertConditions(Tail(conditions), groupId, nested, r.cx)} })
                : r \in { IF nested /\ IsConnectorLike(Head(conditions))
                          THEN jsonLogicToGroup(Head(conditions), GroupIdText(cx.groupCounter),
                                                [cx EXCEPT !.groupCounter = @ + 1])
                          ELSE jsonLogicToGroup(Head(conditions), groupId, cx) } })

\* The loops over `conditions`.  With nested = TRUE (the else branch) a condition
\* that has an `and` or `or` is converted under a freshly allocated parent id.
ConvertConditions(conditions, groupId, nested, cx) ==
    IF conditions = <<>> THEN [items |-> <<>>, cx |-> cx]
    ELSE Pick({ Pick({ [items |-> (IF IsNull(r.result) THEN <<>> ELSE <<r.result>>)
                                      \o rest.items,
                        cx |-> rest.cx]
                       : rest \in {ConvertConditions(Tail(conditions), groupId, nested, r.cx)} })
                : r \in { IF nested /\ IsConnectorLike(Head(conditions))
                          THEN jsonLogicToGroup(Head(conditions), GroupIdText(cx.groupCounter),
                                                [cx EXCEPT !.groupCounter = @ + 1])
                          ELSE jsonLogicToGroup(Head(conditions), groupId, cx) } })

jsonLogicToGroup(expr, parentGroupId, cx) ==
    IF Truthy(expr) /\ HasTruthy(expr, "filter_condition")
    THEN Pick({ [result |-> FilterItem(e.filter.id),
                 cx |-> [e.cx EXCEPT !.filters = Append(@, e.filter)]]
                : e \in {extractFilter(expr, cx)} })
    ELSE IF /\ Truthy(expr)
            /\ Cardinality(DOMAIN expr) = 1
            /\ DOMAIN expr \subseteq {"and", "or"}
    THEN LET key == CHOOSE k \in DOMAIN expr : TRUE
             connector == IF key = "or" THEN "OR" ELSE "AND"
             conditions == expr[key]
         IN  IF ~ IsArray(conditions) \/ Len(conditions.array) = 0
             THEN [result |-> Null, cx |-> cx]
             ELSE LET hasNestedGroups ==
                          \E i \in DOMAIN conditions.array : IsConnectorLike(conditions.array[i])
                  IN  IF parentGroupId = "root" /\ ~ hasNestedGroups
                      THEN Pick({ IF Len(r.items) = 0
                                  THEN [result |-> Null, cx |-> r.cx]
                                  ELSE [result |-> [rootGroup |-> [id |-> "root",
                                                                  connector |-> connector,
                                                                  items |-> r.items],
                                                    isRoot |-> TRUE],
                                        cx |-> r.cx]
                                  : r \in {ConvertConditions(conditions.array, "root", FALSE, cx)} })
                      ELSE LET isRootLevel == parentGroupId = "root"
                               groupId == IF isRootLevel THEN "root"
                                          ELSE GroupIdText(cx.groupCounter)
                               cx1 == IF isRootLevel THEN cx
                                      ELSE [cx EXCEPT !.groupCounter = @ + 1]
                           IN  Pick({ IF Len(r.items) = 0
                                      THEN [result |-> Null, cx |-> r.cx]
                                      ELSE IF isRootLevel
                                      THEN [result |-> [rootGroup |-> [id |-> "root",
                                                                      connector |-> connector,
                                                                      items |-> r.items],
                                                        isRoot |-> TRUE],
                                            cx |-> r.cx]
                                      ELSE [result |-> GroupItem(groupId),
                                            cx |-> [r.cx EXCEPT
                                               !.groups = PutKey(@, groupId,
                                                   [id |-> groupId, connector |-> connector,
                                                    items |-> r.items]),
                                               !.order = IF groupId \in DOMAIN r.cx.groups
                                                         THEN @ ELSE Append(@, groupId)]]
                                      : r \in {ConvertConditions(conditions.array, groupId,
                                                                 TRUE, cx1)} })
    ELSE [result |-> Null, cx |-> cx]

RECURSIVE updateFilterGroupIds(_, _, _, _)
RECURSIVE UpdateGroupIdsOfItems(_, _, _, _)

\* the loop of updateFilterGroupIds over group.items; returns the filters array
UpdateGroupIdsOfItems(fs, gs, items, groupId) ==
    IF items = <<>> THEN fs
    ELSE LET item == Head(items)
             fs1 == IF item.type = "filter"
                    THEN LET i == FindFilter(fs, item.id) IN
                         IF i # 0 THEN [fs EXCEPT ![i].groupId = groupId] ELSE fs
                    ELSE IF item.type = "group" /\ item.id \in DOMAIN gs
                    THEN updateFilterGroupIds(fs, gs, gs[item.id], item.id)
                    ELSE fs
         IN  UpdateGroupIdsOfItems(fs1, gs, Tail(items), groupId)

updateFilterGroupIds(fs, gs, group, groupId) ==
    UpdateGroupIdsOfItems(fs, gs, group.items, groupId)

\* for (const [groupId, group] of Object.entries(groups)) updateFilterGroupIds(group, groupId)
RECURSIVE UpdateGroupIdsOfEntries(_, _, _)
UpdateGroupIdsOfEntries(fs, gs, order) ==
    IF order = <<>> THEN fs
    ELSE UpdateGroupIdsOfEntries(
            updateFilterGroupIds(fs, gs, gs[Head(order)], Head(order)), gs, Tail(order))

EmptyForest == [filters |-> <<>>, rootGroup |-> EmptyRoot, groups |-> EmptyMap]

\* deserializeFiltersFromJsonLogic without the `else if (result)` branch that wraps a
\* bare item in a root
deserializeFiltersFromJsonLogicNoWrap(jsonLogicExpr, filterCounter0, groupCounter0) ==
    IF ~ Truthy(jsonLogicExpr)
    THEN [filters |-> <<>>, rootGroup |-> EmptyRoot, groups |-> EmptyMap,
          filterCounter |-> filterCounter0, groupCounter |-> groupCounter0]
    ELSE LET cx0 == [filters |-> <<>>, groups |-> EmptyMap, order |-> <<>>,
                     filterCounter |-> filterCounter0, groupCounter |-> groupCounter0]
         IN  Pick({ LET root == IF ~ IsNull(r.result) /\ "isRoot" \in DOMAIN r.result
                                THEN r.result.rootGroup
                                ELSE EmptyRoot
                        fs1 == updateFilterGroupIds(r.cx.filters, r.cx.groups, root, "root")
                        fs2 == UpdateGroupIdsOfEntries(fs1, r.cx.groups, r.cx.order)
                    IN  [filters |-> fs2, rootGroup |-> root, groups |-> r.cx.groups,
                         filterCounter |-> r.cx.filterCounter,
                         groupCounter |-> r.cx.groupCounter]
                    : r \in {jsonLogicToGroup(jsonLogicExpr, "root", cx0)} })

\* [filters, rootGroup, groups] returned, with the counters after the call
deserializeFiltersFromJsonLogic(jsonLogicExpr, filterCounter0, groupCounter0) ==
    IF ~ Truthy(jsonLogicExpr)
    THEN [filters |-> <<>>, rootGroup |-> EmptyRoot, groups |-> EmptyMap,
          filterCounter |-> filterCounter0, groupCounter |-> groupCounter0]
    ELSE LET cx0 == [filters |-> <<>>, groups |-> EmptyMap, order |-> <<>>,
                     filterCounter |-> filterCounter0, groupCounter |-> groupCounter0]
         IN  Pick({ LET root == IF ~ IsNull(r.result) /\ "isRoot" \in DOMAIN r.result
                                THEN r.result.rootGroup
                                ELSE IF ~ IsNull(r.result)
                                THEN [id |-> "root", connector |-> "AND", items |-> <<r.result>>]
                                ELSE EmptyRoot
                        fs1 == updateFilterGroupIds(r.cx.filters, r.cx.groups, root, "root")
                        fs2 == UpdateGroupIdsOfEntries(fs1, r.cx.groups, r.cx.order)
                    IN  [filters |-> fs2, rootGroup |-> root, groups |-> r.cx.groups,
                         filterCounter |-> r.cx.filterCounter,
                         groupCounter |-> r.cx.groupCounter]
                    : r \in {jsonLogicToGroup(jsonLogicExpr, "root", cx0)} })

(***************************************************************************)
(* lib/filterSerializer.js : importFiltersFromJson, exportFiltersAsJson    *)
(*                                                                         *)
(* A text is JsonText(doc), the text JSON.stringify writes for doc, or     *)
(* Raw(s), the characters s, which are not JSON.  Anything else handed in  *)
(* is not a string.                                                        *)
(***************************************************************************)
JsonText(doc) == [json |-> doc]
Raw(s) == [raw |-> s]

IsString(t) == "json" \in DOMAIN t \/ "raw" \in DOMAIN t

Whitespace == {" ", "   "}

\* jsonString.trim()
Trim(t) == IF "raw" \in DOMAIN t /\ t.raw \in Whitespace THEN Raw("") ELSE t

\* JSON.parse: the value, or a SyntaxError thrown
JSONparse(t) ==
    IF "json" \in DOMAIN t THEN [value |-> t.json, threw |-> FALSE]
    ELSE [value |-> Null, threw |-> TRUE]

\* importFiltersFromJson without the try/catch around JSON.parse: the SyntaxError leaves
\* the function
importFiltersFromJsonNoCatch(jsonString, filterCounter0, groupCounter0) ==
    LET empty == [filters |-> <<>>, rootGroup |-> EmptyRoot, groups |-> EmptyMap,
                  filterCounter |-> filterCounter0, groupCounter |-> groupCounter0,
                  threw |-> FALSE]
    IN  IF ~ IsString(jsonString) \/ jsonString = Raw("")
        THEN empty
        ELSE LET trimmed == Trim(jsonString) IN
             IF trimmed = Raw("") \/ trimmed = JsonText(Null)
             THEN empty
             ELSE LET parsed == JSONparse(trimmed) IN
                  IF parsed.threw THEN [empty EXCEPT !.threw = TRUE]
                  ELSE Pick({ Merge(r, [threw |-> FALSE])
                              : r \in {deserializeFiltersFromJsonLogic(parsed.value,
                                           filterCounter0, groupCounter0)} })

\* The forest returned, the counters after the call, and threw: whether the call ended
\* in an exception instead of a return.
importFiltersFromJson(jsonString, filterCounter0, groupCounter0) ==
    LET empty == [filters |-> <<>>, rootGroup |-> EmptyRoot, groups |-> EmptyMap,
                  filterCounter |-> filterCounter0, groupCounter |-> groupCounter0,
                  threw |-> FALSE]
    IN  IF ~ IsString(jsonString) \/ jsonString = Raw("")
        THEN empty
        ELSE LET trimmed == Trim(jsonString) IN
             IF trimmed = Raw("") \/ trimmed = JsonText(Null)
             THEN empty
             ELSE LET parsed == JSONparse(trimmed) IN
                  IF parsed.threw THEN empty
                  ELSE Pick({ Merge(r, [threw |-> FALSE])
                              : r \in {deserializeFiltersFromJsonLogic(parsed.value,
                                           filterCounter0, groupCounter0)} })

\* exportFiltersAsJson without `if (jsonLogic === null) return null`
exportFiltersAsJsonNoNullCheck(fs, root, gs) ==
    JsonText(serializeFiltersToJsonLogic(fs, root, gs))

exportFiltersAsJson(fs, root, gs) ==
    LET jsonLogic == serializeFiltersToJsonLogic(fs, root, gs)
    IN  IF IsNull(jsonLogic) THEN Null ELSE JsonText(jsonLogic)

(***************************************************************************)
(* components/FilterBuilder.js : reader.onload of handleImport and the     *)
(* readText().then callback of handlePasteFromClipboard (the same code)    *)
(***************************************************************************)
\* Math.max(...ids), for a non-empty set of numbers
Max(S) == CHOOSE x \in S : \A y \in S : y <= x

\* id.match(/^group-(\d+)$/) ? parseInt(match[1], 10) : -1
GroupIndex(id) ==
    IF \E n \in 0..MaxGroupIndex : GroupIdText(n) = id
    THEN CHOOSE n \in 0..MaxGroupIndex : GroupIdText(n) = id
    ELSE -1

\* the handler without the two `if (maxId >= ...)` fast-forwards of the counters
importHandlerNoAdvance(s, text) ==
    Pick({ [filters |-> result.filters, groups |-> result.groups,
            rootGroup |-> result.rootGroup,
            filterCounter |-> result.filterCounter, groupCounter |-> result.groupCounter]
           : result \in {importFiltersFromJson(text, s.filterCounter, s.groupCounter)} })

\* the handler returning before the three assignments when nothing was imported
importHandlerSkipEmpty(s, text) ==
    Pick({ IF Len(result.filters) = 0 THEN s
           ELSE [filters |-> result.filters, groups |-> result.groups,
                 rootGroup |-> result.rootGroup,
                 filterCounter |-> result.filterCounter,
                 groupCounter |-> result.groupCounter]
           : result \in {importFiltersFromJson(text, s.filterCounter, s.groupCounter)} })

importHandler(s, text) ==
    Pick({ LET filterIds == {result.filters[i].id : i \in DOMAIN result.filters}
               groupIds == {n \in {GroupIndex(id) : id \in DOMAIN result.groups} : n >= 0}
               filterCounter1 ==
                   IF filterIds # {} /\ Max(filterIds) >= result.filterCounter
                   THEN Max(filterIds) + 1 ELSE result.filterCounter
               groupCounter1 ==
                   IF groupIds # {} /\ Max(groupIds) >= result.groupCounter
                   THEN Max(groupIds) + 1 ELSE result.groupCounter
           IN  [filters |-> result.filters, groups |-> result.groups,
                rootGroup |-> result.rootGroup,
                filterCounter |-> filterCounter1, groupCounter |-> groupCounter1]
           : result \in {importFiltersFromJson(text, s.filterCounter, s.groupCounter)} })

(***************************************************************************)
(* The state machine.                                                      *)
(***************************************************************************)
Store == [filters |-> filters, groups |-> groups, rootGroup |-> rootGroup,
          filterCounter |-> filterCounter, groupCounter |-> groupCounter]

\* the values n calls of an id function return from the counter value c on
FilterIdsFrom(c, n) == [i \in 1..n |-> c + i - 1]
GroupIdsFrom(c, n) == [i \in 1..n |-> GroupIdText(c + i - 1)]

\* the values returned while the counters went from those of s to those of upto: an
\* operation that calls the id functions leaves each counter advanced by its calls,
\* and resetFilters, which calls neither, leaves none above its value
IssuedBetween(s, upto) ==
    [filterIds |-> IF upto.filterCounter > s.filterCounter
                   THEN FilterIdsFrom(s.filterCounter, upto.filterCounter - s.filterCounter)
                   ELSE <<>>,
     groupIds |-> IF upto.groupCounter > s.groupCounter
                  THEN GroupIdsFrom(s.groupCounter, upto.groupCounter - s.groupCounter)
                  ELSE <<>>]

\* the variables take the store value t; the operation and its start are recorded.
\* An operation that assigns a counter after its calls of the id functions records the
\* counters its calls left as op.allocated.
Becomes(t, op) ==
    /\ budget > 0
    /\ budget' = budget - 1
    /\ held' = held
    /\ \E s \in {t} :
          /\ filters' = s.filters
          /\ groups' = s.groups
          /\ rootGroup' = s.rootGroup
          /\ filterCounter' = s.filterCounter
          /\ groupCounter' = s.groupCounter
          /\ \E now \in {IssuedBetween([filterCounter |-> filterCounter,
                                         groupCounter |-> groupCounter],
                                        IF "allocated" \in DOMAIN op THEN op.allocated
                                        ELSE s)} :
                issued' = [filterIds |-> issued.filterIds \o now.filterIds,
                           groupIds |-> issued.groupIds \o now.groupIds]
    /\ last' = op
    /\ pre' = Store

InitStore ==
    /\ filters = createFilterStore.filters
    /\ groups = createFilterStore.groups
    /\ rootGroup = createFilterStore.rootGroup
    /\ filterCounter = createFilterStore.filterCounter
    /\ groupCounter = createFilterStore.groupCounter
    /\ pending = <<>>
    /\ last = [op |-> "createFilterStore"]
    /\ pre = createFilterStore
    /\ issued = [filterIds |-> <<>>, groupIds |-> <<>>]
    /\ held = <<>>

Init == InitStore /\ budget = MaxOps

\* An id no filter of an explored behaviour has, and a group index none reaches.
StrayFilterId == MaxGroupIndex - 1
StrayGroupId == GroupIdText(MaxGroupIndex - 1)

ItemIds(s, type) ==
    LET Of(items) == {items[i].id : i \in {j \in DOMAIN items : items[j].type = type}}
    IN  Of(s.rootGroup.items) \cup UNION {Of(s.groups[g].items) : g \in DOMAIN s.groups}

FilterIds(s) == {s.filters[i].id : i \in DOMAIN s.filters}

\* the ids the store holds or refers to
PresentGroups == {"root"} \cup DOMAIN groups \cup ItemIds(Store, "group")
PresentFilters == FilterIds(Store) \cup ItemIds(Store, "filter")

\* what a caller may pass: a present id, the id getNextGroupId returns next, a stray id
GroupTargets == PresentGroups \cup {GroupIdText(groupCounter), StrayGroupId}
FilterTargets == PresentFilters \cup {StrayFilterId}
Connectors == {"AND", "OR"}

\* the `updates` objects handed to updateFilter
Updates == { [ref |-> Str("5")], [type |-> "status", predicate |-> "=="] }

AddFilterToGroup(groupId) ==
    /\ \E r \in {addFilterToGroup(Store, groupId)} :
          Becomes(r.store, [op |-> "addFilterToGroup", groupId |-> groupId, ret |-> r.ret])
    /\ UNCHANGED pending

CreateGroup(parentGroupId, connector) ==
    /\ \E r \in {createGroup(Store, parentGroupId, connector)} :
          Becomes(r.store, [op |-> "createGroup", groupId |-> parentGroupId,
                            connector |-> connector, ret |-> r.ret])
    /\ UNCHANGED pending

RemoveFilter(filterId) ==
    /\ Becomes(removeFilter(Store, filterId), [op |-> "removeFilter", filterId |-> filterId])
    /\ UNCHANGED pending

RemoveGroup(groupId) ==
    /\ Becomes(removeGroup(Store, groupId), [op |-> "removeGroup", groupId |-> groupId])
    /\ UNCHANGED pending

ToggleGroupConnector(groupId) ==
    /\ Becomes(toggleGroupConnector(Store, groupId),
               [op |-> "toggleGroupConnector", groupId |-> groupId])
    /\ UNCHANGED pending

UpdateFilter(filterId, updates) ==
    /\ Becomes(updateFilter(Store, filterId, updates),
               [op |-> "updateFilter", filterId |-> filterId, updates |-> updates])
    /\ UNCHANGED pending

ResetFilters ==
    /\ Becomes(resetFilters(Store), [op |-> "resetFilters"])
    /\ UNCHANGED pending

\* filter_condition objects of the imported documents
Cond(type, predicate, ref) ==
    [filter_condition |-> [type |-> type, predicate |-> predicate, ref |-> ref]]
CondId(type, predicate, ref, id) ==
    [filter_condition |-> [type |-> type, predicate |-> predicate, ref |-> ref, id |-> id]]

\* the texts a file or the clipboard hands to the import handlers
Texts ==
    { JsonText(Cond("count", "<", Str("7"))),
      JsonText([and |-> Arr(<< Cond("count", "<=", Num(7)),
                               CondId("status", "==", Str("open"), 0) >>)]),
      JsonText([or |-> Arr(<< CondId("count", "<", Str("1"), 1),
                              [and |-> Arr(<< CondId("status", "!=", Str("x"), 3),
                                              [or |-> Arr(<< Cond("count", "<", Str("2")) >>)]
                                           >>)] >>)]),
      JsonText([and |-> Arr(<<>>)]),
      Raw("{not valid json") }

\* handleImport up to reader.readAsText(file): the read of the chosen file starts
HandleImport(text) ==
    /\ Len(pending) < MaxPending
    /\ pending' = Append(pending, [via |-> "file", text |-> text, started |-> Store])
    /\ Becomes(Store, [op |-> "handleImport", text |-> text])

\* handlePasteFromClipboard up to navigator.clipboard.readText(): the read starts
HandlePasteFromClipboard(text) ==
    /\ Len(pending) < MaxPending
    /\ pending' = Append(pending, [via |-> "clipboard", text |-> text, started |-> Store])
    /\ Becomes(Store, [op |-> "handlePasteFromClipboard", text |-> text])

RemoveAt(seq, i) == SubSeq(seq, 1, i - 1) \o SubSeq(seq, i + 1, Len(seq))

\* reader.onload: the file's text has arrived
ReaderOnload(i) ==
    /\ pending[i].via = "file"
    /\ pending' = RemoveAt(pending, i)
    /\ \E r \in {importFiltersFromJson(pending[i].text, filterCounter, groupCounter)} :
          Becomes(importHandler(Store, pending[i].text),
                  [op |-> "import", via |-> "file", text |-> pending[i].text,
                   started |-> pending[i].started,
                   allocated |-> [filterCounter |-> r.filterCounter,
                                  groupCounter |-> r.groupCounter]])

\* the callback of readText().then: the clipboard's text has arrived
ClipboardText(i) ==
    /\ pending[i].via = "clipboard"
    /\ pending' = RemoveAt(pending, i)
    /\ \E r \in {importFiltersFromJson(pending[i].text, filterCounter, groupCounter)} :
          Becomes(importHandler(Store, pending[i].text),
                  [op |-> "import", via |-> "clipboard", text |-> pending[i].text,
                   started |-> pending[i].started,
                   allocated |-> [filterCounter |-> r.filterCounter,
                                  groupCounter |-> r.groupCounter]])

Next ==
    \/ \E g \in GroupTargets : AddFilterToGroup(g)
    \/ \E g \in GroupTargets, c \in Connectors : CreateGroup(g, c)
    \/ \E f \in FilterTargets : RemoveFilter(f)
    \/ \E g \in GroupTargets : RemoveGroup(g)
    \/ \E g \in GroupTargets : ToggleGroupConnector(g)
    \/ \E f \in FilterTargets, u \in Updates : UpdateFilter(f, u)
    \/ ResetFilters
    \/ \E t \in Texts : HandleImport(t)
    \/ \E t \in Texts : HandlePasteFromClipboard(t)
    \/ \E i \in DOMAIN pending : ReaderOnload(i)
    \/ \E i \in DOMAIN pending : ClipboardText(i)

\* The whole program: the store's operations called with any id, resetFilters and
\* the two import handlers.
Spec == Init /\ [][Next]_vars

\* The six mutation operations, each called with 'root' or an id the store holds.
InitOps == InitStore /\ budget = MaxOpsValid

NextOps ==
    \/ \E g \in PresentGroups : AddFilterToGroup(g)
    \/ \E g \in PresentGroups, c \in Connectors : CreateGroup(g, c)
    \/ \E f \in PresentFilters : RemoveFilter(f)
    \/ \E g \in PresentGroups : RemoveGroup(g)
    \/ \E g \in PresentGroups : ToggleGroupConnector(g)
    \/ \E f \in PresentFilters, u \in Updates : UpdateFilter(f, u)

SpecOps == InitOps /\ [][NextOps]_vars

\* addFilterToGroup and createGroup alone, called with any id.
NextAlloc ==
    \/ \E g \in GroupTargets : AddFilterToGroup(g)
    \/ \E g \in GroupTargets, c \in Connectors : CreateGroup(g, c)

SpecAlloc == InitOps /\ [][NextAlloc]_vars

(***************************************************************************)
(* serializeFiltersToJsonLogic and exportFiltersAsJson as functions of     *)
(* their arguments: forests of up to two filters and two groups, with      *)
(* filters that lack a field, groups without items and items that refer    *)
(* to nothing.                                                             *)
(***************************************************************************)
\* type, predicate and ref of the filters handed in
FilterKinds ==
    { [type |-> "count",  predicate |-> "<",  ref |-> Str("5")],
      [type |-> "count",  predicate |-> "<",  ref |-> Str("")],
      [type |-> "count",  predicate |-> "<=", ref |-> Null],
      [type |-> "count",  predicate |-> "<=", ref |-> Undefined],
      [type |-> "count",  predicate |-> "<",  ref |-> Num(0)],
      [type |-> "",       predicate |-> "<",  ref |-> Str("6")],
      [type |-> "status", predicate |-> "",   ref |-> Str("open")],
      [type |-> "status", predicate |-> "~",  ref |-> Str("open")] }

\* root's items, the items of each group, the number of filters and their groupIds
ForestShapes ==
    << [items |-> <<>>, groups |-> EmptyMap, n |-> 0, home |-> <<>>],
      [items |-> <<FilterItem(0)>>, groups |-> EmptyMap, n |-> 1, home |-> <<"root">>],
      [items |-> <<FilterItem(0), FilterItem(1)>>, groups |-> EmptyMap,
       n |-> 2, home |-> <<"root", "root">>],
      [items |-> <<GroupItem("group-0")>>,
       groups |-> Obj("group-0", <<FilterItem(0)>>), n |-> 1, home |-> <<"group-0">>],
      [items |-> <<GroupItem("group-0")>>,
       groups |-> Obj("group-0", <<FilterItem(0), FilterItem(1)>>),
       n |-> 2, home |-> <<"group-0", "group-0">>],
      [items |-> <<FilterItem(0), GroupItem("group-0")>>,
       groups |-> Obj("group-0", <<FilterItem(1)>>), n |-> 2, home |-> <<"root", "group-0">>],
      [items |-> <<GroupItem("group-0"), FilterItem(0)>>,
       groups |-> PutKey(Obj("group-0", <<GroupItem("group-1"), FilterItem(1)>>),
                         "group-1", <<>>),
       n |-> 2, home |-> <<"root", "group-0">>],
      [items |-> <<GroupItem("group-0")>>,
       groups |-> PutKey(Obj("group-0", <<GroupItem("group-1")>>),
                         "group-1", <<FilterItem(0)>>),
       n |-> 1, home |-> <<"group-1">>],
      [items |-> <<GroupItem("group-0"), GroupItem("group-1")>>,
       groups |-> PutKey(Obj("group-0", <<FilterItem(1)>>),
                         "group-1", <<FilterItem(0)>>),
       n |-> 2, home |-> <<"group-1", "group-0">>],
      [items |-> <<FilterItem(1), GroupItem("group-1"), FilterItem(0)>>,
       groups |-> EmptyMap, n |-> 1, home |-> <<"root">>] >>

InitForest ==
    /\ \E n \in DOMAIN ForestShapes, k0 \in FilterKinds, k1 \in FilterKinds,
          c0 \in Connectors, c1 \in Connectors :
          LET sh == ForestShapes[n] IN
          /\ filters = [i \in 1..sh.n |->
                          Merge(IF i = 1 THEN k0 ELSE k1,
                                [id |-> i - 1, groupId |-> sh.home[i]])]
          /\ rootGroup = [id |-> "root", connector |-> c0, items |-> sh.items]
          /\ groups = [g \in DOMAIN sh.groups |->
                          [id |-> g, connector |-> c1, items |-> sh.groups[g]]]
    /\ filterCounter = 2
    /\ groupCounter = 2
    /\ pending = <<>>
    /\ last = [op |-> "forest"]
    /\ pre = createFilterStore
    /\ issued = [filterIds |-> FilterIdsFrom(0, 2), groupIds |-> GroupIdsFrom(0, 2)]
    /\ held = <<>>
    /\ budget = MaxPureOps

\* a call of serializeFiltersToJsonLogic on the store's three collections
Serialize ==
    /\ Becomes(Store, [op |-> "serialize",
                       doc |-> serializeFiltersToJsonLogic(filters, rootGroup, groups)])
    /\ UNCHANGED pending

\* handleExport: exportFiltersAsJson on the store's three collections
HandleExport ==
    /\ Becomes(Store, [op |-> "export",
                       text |-> exportFiltersAsJson(filters, rootGroup, groups)])
    /\ UNCHANGED pending

\* a call of deserializeFiltersFromJsonLogic(doc, store.getNextFilterId,
\* store.getNextGroupId): the result is recorded, the store's counters have advanced
Deserialize(doc) ==
    /\ \E r \in {deserializeFiltersFromJsonLogic(doc, filterCounter, groupCounter)} :
          Becomes([Store EXCEPT !.filterCounter = r.filterCounter,
                                !.groupCounter = r.groupCounter],
                  [op |-> "deserialize", doc |-> doc,
                   result |-> [filters |-> r.filters, rootGroup |-> r.rootGroup,
                               groups |-> r.groups]])
    /\ UNCHANGED pending

NextSerialize ==
    \/ Serialize
    \/ HandleExport
    \/ \E g \in PresentGroups : ToggleGroupConnector(g)
    \/ last.op = "serialize" /\ Deserialize(last.doc)

SpecSerialize == InitForest /\ [][NextSerialize]_vars

(***************************************************************************)
(* The deserializer applied to documents and texts: the store is the one   *)
(* createFilterStore returns after calls that have advanced its counters,  *)
(* and the deserializer allocates through its getNextFilterId and          *)
(* getNextGroupId.                                                         *)
(***************************************************************************)
\* a filter_condition object without ref
CondNoRef(type, predicate) ==
    [filter_condition |-> [type |-> type, predicate |-> predicate]]

\* documents of the expression grammar, and values that are not
Documents ==
    { Cond("count", "<", Str("7")),
      CondId("status", "==", Str("open"), 5),
      Cond("count", "<=", Num(7)),
      CondNoRef("status", "!="),
      CondId("count", ">", Null, 0),
      [and |-> Arr(<< Cond("count", "<=", Num(7)),
                      CondId("status", "==", Str("open"), 0) >>)],
      [or |-> Arr(<< CondId("count", "<", Str("1"), 1),
                     [and |-> Arr(<< CondId("status", "!=", Str("x"), 3),
                                     [or |-> Arr(<< Cond("count", "<", Str("2")) >>)]
                                  >>)] >>)],
      [and |-> Arr(<< [or |-> Arr(<< Cond("count", ">=", Str("1")),
                                     Cond("count", "<", Str("9")) >>)] >>)],
      [or |-> Arr(<< [or |-> Arr(<< Cond("status", "==", Str("a")) >>)],
                     Cond("count", "<", Str("4")),
                     [and |-> Arr(<< CondId("count", "<=", Str("6"), 7),
                                     Cond("status", "!=", Str("b")) >>)] >>)],
      [and |-> Arr(<< [xor |-> Arr(<< Cond("count", "<", Str("3")) >>)],
                      CondId("status", "==", Str("y"), 2) >>)],
      [and |-> Arr(<<>>)],
      [and |-> Num(5)],
      [xor |-> Arr(<< Cond("count", "<", Str("7")) >>)],
      [and |-> Arr(<< Cond("count", "<", Str("7")) >>),
       or |-> Arr(<< Cond("count", ">", Str("1")) >>)],
      Arr(<<>>),
      Arr(<< Cond("count", "<", Str("7")) >>),
      Num(5),
      Num(0),
      Str("abc"),
      Null }

\* arguments of importFiltersFromJson: the texts of the documents, texts that are not
\* JSON, and values that are not strings
ImportTexts ==
    {JsonText(doc) : doc \in Documents}
        \cup {Raw(""), Raw(" "), Raw("   "), Raw("{not valid json")}
        \cup {Null, Undefined, Num(5), Cond("count", "<", Str("7"))}

InitDeserialize ==
    /\ filters = createFilterStore.filters
    /\ groups = createFilterStore.groups
    /\ rootGroup = createFilterStore.rootGroup
    /\ filterCounter \in 0..MaxStartCounter
    /\ groupCounter \in 0..MaxStartCounter
    /\ pending = <<>>
    /\ last = [op |-> "createFilterStore"]
    /\ pre = createFilterStore
    /\ issued = [filterIds |-> FilterIdsFrom(0, filterCounter),
                 groupIds |-> GroupIdsFrom(0, groupCounter)]
    /\ held = <<>>
    /\ budget = MaxPureOps

\* a call of importFiltersFromJson(text, store.getNextFilterId, store.getNextGroupId)
ImportFiltersFromJson(text) ==
    /\ \E r \in {importFiltersFromJson(text, filterCounter, groupCounter)} :
          Becomes([Store EXCEPT !.filterCounter = r.filterCounter,
                                !.groupCounter = r.groupCounter],
                  [op |-> "importFiltersFromJson", text |-> text, threw |-> r.threw,
                   result |-> [filters |-> r.filters, rootGroup |-> r.rootGroup,
                               groups |-> r.groups]])
    /\ UNCHANGED pending

NextDeserialize ==
    \/ \E doc \in Documents : Deserialize(doc)
    \/ \E text \in ImportTexts : ImportFiltersFromJson(text)

SpecDeserialize == InitDeserialize /\ [][NextDeserialize]_vars

(***************************************************************************)
(* components/FilterRow.js : the change handler of a filter's row, with    *)
(* the schema of the store as the row's schema and updateFilter as its     *)
(* onUpdateFilter.                                                         *)
(***************************************************************************)
IncludesRelation(relations, predicate) ==
    \E k \in DOMAIN relations : relations[k] = predicate

\* handleChange without the branch for field === 'type'
handleChangeFieldOnly(filter, field, value) == Obj(field, value)

\* handleChange(field, value) of the row of `filter`: the updates handed to onUpdateFilter
handleChange(filter, field, value) ==
    LET updates == Obj(field, value)
        i == IF field = "type" THEN FindSchema(value) ELSE 0
    IN  IF /\ field = "type"
           /\ i # 0
           /\ ~ IncludesRelation(filterSchema[i].relations, filter.predicate)
        THEN Merge(updates,
                   [predicate |-> IF Len(filterSchema[i].relations) > 0
                                     /\ filterSchema[i].relations[1] # ""
                                  THEN filterSchema[i].relations[1] ELSE "<"])
        ELSE updates

\* the options of the row's type select
TypeOptions == {filterSchema[i].name : i \in DOMAIN filterSchema}

\* the options of the row's predicate select
PredicateOptions(filter) ==
    LET i == FindSchema(filter.type)
    IN  IF i # 0 THEN Range(filterSchema[i].relations) ELSE {"<", "<=", ">", ">="}

\* what the row's value input hands over
RefInputs == {Str(""), Str("5"), Str("open")}

\* a change event on the row of the filter at place i
HandleChange(i, field, value) ==
    /\ \E updates \in {handleChange(filters[i], field, value)} :
          Becomes(updateFilter(Store, filters[i].id, updates),
                  [op |-> "handleChange", filterId |-> filters[i].id, field |-> field,
                   updates |-> updates])
    /\ UNCHANGED pending

InitRows == InitStore /\ budget = MaxRowOps

NextRows ==
    \/ \E g \in GroupTargets : AddFilterToGroup(g)
    \/ \E i \in DOMAIN filters, value \in TypeOptions : HandleChange(i, "type", value)
    \/ \E i \in DOMAIN filters :
          \E value \in PredicateOptions(filters[i]) : HandleChange(i, "predicate", value)
    \/ \E i \in DOMAIN filters, value \in RefInputs : HandleChange(i, "ref", value)

SpecRows == InitRows /\ [][NextRows]_vars

(***************************************************************************)
(* addFilterToGroup assignment by assignment, with a reader.  A signal     *)
(* runs its subscribers when it is assigned, so a reader can take          *)
(* store.filters.value, store.groups.value or store.rootGroup.value        *)
(* between two assignments of one call.  A reference shows the value it    *)
(* was taken with until an object it reaches is written in place.          *)
(* last.line is the line of the assignment the call has reached.           *)
(***************************************************************************)
\* the call of addFilterToGroup has nothing left to do
Returned ==
    "line" \in DOMAIN last
        => \/ last.line \in {40, 56, 64}
           \/ last.line = 23 /\ last.groupId # "root" /\ last.groupId \notin DOMAIN groups

\* a reader reads store[field].value and keeps the reference
Take(field) ==
    /\ Len(held) < MaxHeld
    /\ held' = Append(held, [field |-> field, stamp |-> budget,
                             taken |-> Store[field], sees |-> Store[field]])
    /\ UNCHANGED <<filters, groups, rootGroup, filterCounter, groupCounter, pending, last,
                   pre, issued, budget>>

\* lines 11-23: the id is allocated, the filter object built and the new list assigned
AddFilterLine23(groupId) ==
    /\ Returned
    /\ budget > 0
    /\ budget' = budget - 1
    /\ \E n \in {getNextFilterId(Store)} :
          /\ filters' = Append(filters,
                               [id |-> n.id, type |-> getDefaultFilterType,
                                predicate |-> getDefaultPredicate(getDefaultFilterType),
                                ref |-> Str(""), groupId |-> groupId])
          /\ filterCounter' = n.store.filterCounter
          /\ issued' = [issued EXCEPT !.filterIds = Append(@, n.id)]
          /\ last' = [op |-> "addFilterToGroup", line |-> 23, groupId |-> groupId,
                      filterId |-> n.id, since |-> budget - 1]
    /\ pre' = Store
    /\ UNCHANGED <<groups, rootGroup, groupCounter, pending, held>>

\* line 29: createGroup(store, 'root', 'AND') for an empty root
AddFilterLine29 ==
    /\ "line" \in DOMAIN last /\ last.line = 23
    /\ last.groupId = "root"
    /\ Len(rootGroup.items) = 0
    /\ budget > 0
    /\ budget' = budget - 1
    /\ \E c \in {createGroup(Store, "root", "AND")} :
          /\ groups' = c.store.groups
          /\ rootGroup' = c.store.rootGroup
          /\ groupCounter' = c.store.groupCounter
          /\ issued' = [issued EXCEPT !.groupIds = Append(@, GroupIdText(groupCounter))]
          /\ last' = Merge(last, [line |-> 29, newGroupId |-> c.ret])
    /\ UNCHANGED <<filters, filterCounter, pending, pre, held>>

\* lines 33-39: the filter item is appended to the new group
AddFilterLine33 ==
    /\ "line" \in DOMAIN last /\ last.line = 29
    /\ last.newGroupId \in DOMAIN groups
    /\ budget > 0
    /\ budget' = budget - 1
    /\ groups' = PutKey(groups, last.newGroupId,
                        AppendItem(groups[last.newGroupId], FilterItem(last.filterId)))
    /\ last' = [last EXCEPT !.line = 33]
    /\ UNCHANGED <<filters, rootGroup, filterCounter, groupCounter, pending, pre, issued,
                   held>>

\* line 40: filter.groupId = newGroupId, written into the object that line 23 put
\* into the list; every reference to the list taken since shows the written object
AddFilterLine40 ==
    /\ "line" \in DOMAIN last /\ last.line = 33
    /\ budget > 0
    /\ budget' = budget - 1
    /\ filters' = SetGroupIdInPlace(filters, last.newGroupId)
    /\ held' = [h \in DOMAIN held |->
                   IF held[h].field = "filters" /\ held[h].stamp <= last.since
                   THEN [held[h] EXCEPT !.sees = SetGroupIdInPlace(@, last.newGroupId)]
                   ELSE held[h]]
    /\ last' = [last EXCEPT !.line = 40]
    /\ UNCHANGED <<groups, rootGroup, filterCounter, groupCounter, pending, pre, issued>>

\* lines 56-59: the filter item is appended to a root that has items
AddFilterLine56 ==
    /\ "line" \in DOMAIN last /\ last.line = 23
    /\ last.groupId = "root"
    /\ Len(rootGroup.items) # 0
    /\ budget > 0
    /\ budget' = budget - 1
    /\ rootGroup' = AppendItem(rootGroup, FilterItem(last.filterId))
    /\ last' = [last EXCEPT !.line = 56]
    /\ UNCHANGED <<filters, groups, filterCounter, groupCounter, pending, pre, issued, held>>

\* lines 62-70: the filter item is appended to the group found under groupId
AddFilterLine64 ==
    /\ "line" \in DOMAIN last /\ last.line = 23
    /\ last.groupId # "root"
    /\ last.groupId \in DOMAIN groups
    /\ budget > 0
    /\ budget' = budget - 1
    /\ groups' = PutKey(groups, last.groupId,
                        AppendItem(groups[last.groupId], FilterItem(last.filterId)))
    /\ last' = [last EXCEPT !.line = 64]
    /\ UNCHANGED <<filters, rootGroup, filterCounter, groupCounter, pending, pre, issued,
                   held>>

InitSteps == InitStore /\ budget = MaxSteps

NextSteps ==
    \/ \E field \in {"filters", "groups", "rootGroup"} : Take(field)
    \/ \E g \in GroupTargets : AddFilterLine23(g)
    \/ AddFilterLine29
    \/ AddFilterLine33
    \/ AddFilterLine40
    \/ AddFilterLine56
    \/ AddFilterLine64
    \/ Returned /\ \E g \in GroupTargets, c \in Connectors : CreateGroup(g, c)
    \/ Returned /\ \E f \in FilterTargets : RemoveFilter(f)
    \/ Returned /\ \E g \in GroupTargets : RemoveGroup(g)
    \/ Returned /\ \E g \in GroupTargets : ToggleGroupConnector(g)
    \/ Returned /\ \E f \in FilterTargets, u \in Updates : UpdateFilter(f, u)

SpecSteps == InitSteps /\ [][NextSteps]_vars

(***************************************************************************)
(* Vocabulary of the properties.                                           *)
(***************************************************************************)
GroupKeys(s) == {"root"} \cup DOMAIN s.groups

\* the items of the group with id g ('root' is the root group)
ItemsOf(s, g) ==
    IF g = "root" THEN s.rootGroup.items
    ELSE IF g \in DOMAIN s.groups THEN s.groups[g].items ELSE <<>>

\* the places <<g, i>> where an item of the given type and id stands
Occurrences(s, type, id) ==
    UNION { { <<g, i>> : i \in {j \in DOMAIN ItemsOf(s, g) :
                                    /\ ItemsOf(s, g)[j].type = type
                                    /\ ItemsOf(s, g)[j].id = id} }
            : g \in GroupKeys(s) }

ChildGroups(s, g) ==
    {ItemsOf(s, g)[i].id : i \in {j \in DOMAIN ItemsOf(s, g) : ItemsOf(s, g)[j].type = "group"}}
ChildFilters(s, g) ==
    {ItemsOf(s, g)[i].id : i \in {j \in DOMAIN ItemsOf(s, g) : ItemsOf(s, g)[j].type = "filter"}}

\* the groups referenced from g through one or more group items
RECURSIVE ReachFrom(_, _, _)
ReachFrom(s, frontier, seen) ==
    LET next == (UNION {ChildGroups(s, g) : g \in frontier}) \ seen
    IN  IF next = {} THEN seen ELSE ReachFrom(s, next, seen \cup next)
Descendants(s, g) == ReachFrom(s, {g}, {})

\* the filter ids referenced from g directly or through a nested group
FiltersUnder(s, g) == UNION {ChildFilters(s, h) : h \in {g} \cup Descendants(s, g)}

DistinctFilterIds(fs) == \A i, j \in DOMAIN fs : fs[i].id = fs[j].id => i = j

\* the tree below a group, with the ids of the groups left out
RECURSIVE Shape(_, _)
Shape(s, group) ==
    [connector |-> group.connector,
     items |-> [i \in DOMAIN group.items |->
                  IF group.items[i].type = "filter"
                  THEN [filter |-> group.items[i].id]
                  ELSE IF group.items[i].id \in DOMAIN s.groups
                  THEN [group |-> Shape(s, s.groups[group.items[i].id])]
                  ELSE [dangling |-> TRUE]]]

Facts(fs) == {[id |-> fs[i].id, type |-> fs[i].type, predicate |-> fs[i].predicate,
               ref |-> fs[i].ref] : i \in DOMAIN fs}
Triples(fs) == {<<fs[i].type, fs[i].predicate, fs[i].ref>> : i \in DOMAIN fs}

\* every filter has a type, one of the six predicates and a non-empty string ref
CompleteFilters(fs) ==
    \A i \in DOMAIN fs :
        /\ fs[i].type # ""
        /\ fs[i].predicate \in Predicates
        /\ "str" \in DOMAIN fs[i].ref
        /\ fs[i].ref # Str("")

\* deserialize(serialize(s)), the import starting from the given counters
RoundTrip(s, filterCounter0, groupCounter0) ==
    deserializeFiltersFromJsonLogic(
        serializeFiltersToJsonLogic(s.filters, s.rootGroup, s.groups),
        filterCounter0, groupCounter0)

SameForest(s, r) ==
    /\ Triples(r.filters) = Triples(s.filters)
    /\ Facts(r.filters) = Facts(s.filters)
    /\ Shape(r, r.rootGroup) = Shape(s, s.rootGroup)

\* the counters an import may start from
StartCounters == {<<0, 0>>, <<filterCounter, groupCounter>>}

(***************************************************************************)
(* C1  Round-trip fidelity.                                                *)
(***************************************************************************)
\* C1 as stated: for every forest with pairwise distinct filter ids whose filters all
\* have a type, one of the six predicates and a non-empty ref,
\* deserialize(serialize(forest)) has the same (type, predicate, ref) triples, the
\* same tree shape with the same connector on every group, root included, and the
\* same filter ids.
C1_RoundTripAsStated ==
    (DistinctFilterIds(filters) /\ CompleteFilters(filters))
        => \A c \in StartCounters : SameForest(Store, RoundTrip(Store, c[1], c[2]))

\* a group below which (itself included) no filter is referenced
FilterFree(s, g) == FiltersUnder(s, g) = {}

\* the root yields a connector expression: it has two or more items, or one group item
RootWrapped(s) ==
    \/ Len(s.rootGroup.items) >= 2
    \/ Len(s.rootGroup.items) = 1 /\ s.rootGroup.items[1].type = "group"

\* C1 as amended: the round trip reproduces the triples, the filter ids and the tree
\* shape with every connector when, besides, no group of the forest is without a
\* filter below it and root either yields a connector expression or has connector AND
\* (serialize drops a group that yields no condition, and a root that is empty or
\* holds a single filter comes back with connector AND).
C1_RoundTripAmended ==
    ( /\ DistinctFilterIds(filters)
      /\ CompleteFilters(filters)
      /\ \A g \in DOMAIN groups : ~ FilterFree(Store, g)
      /\ RootWrapped(Store) \/ rootGroup.connector = "AND" )
        => \A c \in StartCounters : SameForest(Store, RoundTrip(Store, c[1], c[2]))

\* a forest with two filters, a nested group and an OR connector that goes round
C1_Witness ==
    /\ Len(filters) >= 2
    /\ CompleteFilters(filters)
    /\ \A g \in DOMAIN groups : ~ FilterFree(Store, g)
    /\ RootWrapped(Store)
    /\ \E g \in DOMAIN groups : groups[g].connector = "OR"
    /\ SameForest(Store, RoundTrip(Store, filterCounter, groupCounter))

(***************************************************************************)
(* C2  Cascade deletion.                                                   *)
(***************************************************************************)
\* C2: after removeGroup(store, g) for a group g present in the mapping, no filter that
\* was referenced from g directly or through a nested sub-group is left in the filter
\* list, no group nested within g and not g itself is left in the mapping, and no item
\* {type:'group', id:g} is left in root's items or in a remaining group's items.
C2_CascadeDeletion ==
    (last.op = "removeGroup" /\ last.groupId \in DOMAIN pre.groups)
        => /\ FilterIds(Store) \cap FiltersUnder(pre, last.groupId) = {}
           /\ DOMAIN groups \cap Descendants(pre, last.groupId) = {}
           /\ last.groupId \notin DOMAIN groups
           /\ Occurrences(Store, "group", last.groupId) = {}

\* a referenced group holding a filter and a nested group that holds a filter was removed
C2_Witness ==
    /\ last.op = "removeGroup"
    /\ last.groupId \in DOMAIN pre.groups
    /\ Occurrences(pre, "group", last.groupId) # {}
    /\ ChildFilters(pre, last.groupId) \cap FilterIds(pre) # {}
    /\ \E h \in Descendants(pre, last.groupId) \cap DOMAIN pre.groups :
            ChildFilters(pre, h) \cap FilterIds(pre) # {}
    /\ Len(filters) < Len(pre.filters)

(***************************************************************************)
(* C3  Tree invariant.                                                     *)
(***************************************************************************)
TreeInvariant(s) ==
    /\ \A g \in GroupKeys(s) : g \notin Descendants(s, g)
    /\ \A g \in GroupKeys(s) : ChildGroups(s, g) \subseteq DOMAIN s.groups
    /\ \A g \in DOMAIN s.groups : Cardinality(Occurrences(s, "group", g)) = 1
    /\ DOMAIN s.groups \subseteq Descendants(s, "root")

\* C3: in every state reached from createFilterStore by the six mutation operations
\* called with 'root' or an id the store holds, the groups form a tree rooted at root:
\* no group's items reference the group itself or an ancestor, every group item
\* references a group of the mapping, every group of the mapping is referenced by
\* exactly one group item, and every group is reachable from root.
C3_TreeInvariant == TreeInvariant(Store)

\* a group nested in a group survives the removal of another group
C3_Witness ==
    /\ last.op = "removeGroup"
    /\ DOMAIN groups # DOMAIN pre.groups
    /\ \E g \in DOMAIN groups : ChildGroups(Store, g) # {}

(***************************************************************************)
(* C4  Filter membership invariant.                                        *)
(***************************************************************************)
\* C4: in every state reached by the six mutation operations called with 'root' or an
\* id the store holds, each filter of the filter list is referenced by exactly one
\* filter item across root and all groups, that item lies in the group whose id is the
\* filter's groupId, and every filter item references a filter of the list.
C4_FilterMembership ==
    /\ \A i \in DOMAIN filters :
          /\ Cardinality(Occurrences(Store, "filter", filters[i].id)) = 1
          /\ \A o \in Occurrences(Store, "filter", filters[i].id) : o[1] = filters[i].groupId
    /\ \A g \in GroupKeys(Store) : ChildFilters(Store, g) \subseteq FilterIds(Store)

\* a filter added to the empty root sits in the group created for it, beside another
\* filter that sits in root
C4_Witness ==
    /\ \E i \in DOMAIN filters : filters[i].groupId = "root"
    /\ \E i \in DOMAIN filters : filters[i].groupId \in DOMAIN groups
    /\ last.op \in {"removeFilter", "removeGroup", "updateFilter"}

(***************************************************************************)
(* C5  Id distinctness.                                                    *)
(***************************************************************************)
\* C5: after any sequence of addFilterToGroup and createGroup calls on one store, the
\* ids of the filters of the filter list are pairwise distinct, and the ids of the
\* groups of the mapping are pairwise distinct and different from 'root'.
C5_IdDistinctness ==
    /\ DistinctFilterIds(filters)
    /\ \A g, h \in DOMAIN groups : groups[g].id = groups[h].id => g = h
    /\ \A g \in DOMAIN groups : groups[g].id # "root"

\* two filters and two groups have been allocated
C5_Witness ==
    /\ Len(filters) >= 2
    /\ Cardinality(DOMAIN groups) >= 2
    /\ last.op \in {"addFilterToGroup", "createGroup"}

(***************************************************************************)
(* C6  No collision after an import.                                       *)
(***************************************************************************)
\* both counters are ahead of every id the store holds
CountersAhead(s) ==
    /\ \A id \in FilterIds(s) : id < s.filterCounter
    /\ \A g \in DOMAIN s.groups :
          \A n \in 0..MaxGroupIndex : g = GroupIdText(n) => n < s.groupCounter
    /\ s.filterCounter \notin FilterIds(s)
    /\ GroupIdText(s.groupCounter) \notin DOMAIN s.groups

\* C6: once an import has completed through the file-import or the clipboard-paste
\* handler, filterCounter is greater than every filter id of the imported forest and
\* groupCounter greater than the index n of every imported group id 'group-n', so the
\* ids getNextFilterId and getNextGroupId return next are not in the store; also when
\* mutation operations ran between the start of the read and its completion.
C6_NoCollisionAfterImport == last.op = "import" => CountersAhead(Store)

\* an import completed after a filter was added while the read was in flight, and it
\* brought in a filter id the counter had not reached
C6_Witness ==
    /\ last.op = "import"
    /\ last.started.filterCounter < pre.filterCounter
    /\ \E id \in FilterIds(Store) : id >= pre.filterCounter
    /\ DOMAIN groups # {}

(***************************************************************************)
(* C7  Filter ids of an imported forest.                                   *)
(***************************************************************************)
\* C7: for an input document whose embedded filter_condition ids are pairwise distinct
\* (every document of Texts is one), and for any starting value of the filter counter,
\* the filters deserializeFiltersFromJsonLogic returns have pairwise distinct ids.
C7_ImportedIdsDistinct == last.op = "import" => DistinctFilterIds(filters)

(***************************************************************************)
(* C8  Root permanence.                                                    *)
(***************************************************************************)
\* C8: in every state reached by mutation operations (removeGroup(store, 'root')
\* included), imports and resetFilters, rootGroup is a group with id 'root' and the
\* group mapping has no key 'root'; removeGroup(store, 'root') removes neither root nor
\* any of root's items.
C8_RootPermanence ==
    /\ rootGroup.id = "root"
    /\ "root" \notin DOMAIN groups
    /\ (last.op = "removeGroup" /\ last.groupId = "root")
          => /\ rootGroup = pre.rootGroup
             /\ groups = pre.groups
             /\ filters = pre.filters

\* removeGroup(store, 'root') was called on a root that holds a filter and a group
C8_Witness ==
    /\ last.op = "removeGroup"
    /\ last.groupId = "root"
    /\ ChildFilters(pre, "root") # {}
    /\ ChildGroups(pre, "root") # {}

(***************************************************************************)
(* C9  addFilterToGroup and createGroup with an unknown group id.          *)
(***************************************************************************)
\* C9: addFilterToGroup(store, g) and createGroup(store, g, c) called with a g that is
\* neither 'root' nor a key of the group mapping leave the filter list, the group
\* mapping and the root group unchanged.
C9_UnknownGroupIsNoOp ==
    ( /\ last.op \in {"addFilterToGroup", "createGroup"}
      /\ last.groupId \notin GroupKeys(pre) )
        => /\ filters = pre.filters
           /\ groups = pre.groups
           /\ rootGroup = pre.rootGroup

(***************************************************************************)
(* C10  The other four operations with an id the store does not hold.      *)
(***************************************************************************)
AbsentFilter(s, id) == id \notin FilterIds(s) \cup ItemIds(s, "filter")
AbsentGroup(s, id) == id \notin GroupKeys(s) \cup ItemIds(s, "group")

\* C10: removeFilter, removeGroup, toggleGroupConnector and updateFilter called with an
\* id that is not present in the store leave the filter list, the group mapping, the
\* root group and both counters equal in value to what they were before the call.
C10_AbsentIdIsNoOp ==
    ( \/ last.op \in {"removeFilter", "updateFilter"} /\ AbsentFilter(pre, last.filterId)
      \/ last.op \in {"removeGroup", "toggleGroupConnector"} /\ AbsentGroup(pre, last.groupId) )
        => Store = pre

\* one of the four was called with an absent id on a store that holds filters and groups
C10_Witness ==
    /\ \/ last.op \in {"removeFilter", "updateFilter"} /\ AbsentFilter(pre, last.filterId)
       \/ last.op \in {"removeGroup", "toggleGroupConnector"} /\ AbsentGroup(pre, last.groupId)
    /\ Len(pre.filters) >= 1
    /\ \E g \in DOMAIN pre.groups : pre.groups[g].items # <<>>
    /\ pre.rootGroup.items # <<>>

(***************************************************************************)
(* C11  The failure signal of createGroup.                                 *)
(***************************************************************************)
\* C11: createGroup(store, p, c) returns null exactly when p equals the group id it has
\* just allocated from getNextGroupId, and then the group mapping, the root group and
\* the filter list are unchanged (no group registered, no reference appended); in
\* every other case it returns the newly allocated group id.
C11_CreateGroupFailureSignal ==
    last.op = "createGroup"
        => LET allocated == GroupIdText(pre.groupCounter) IN
           /\ last.ret = "null" <=> last.groupId = allocated
           /\ last.ret = "null" => /\ groups = pre.groups
                                   /\ rootGroup = pre.rootGroup
                                   /\ filters = pre.filters
           /\ last.ret # "null" => last.ret = allocated /\ allocated \in DOMAIN groups

\* createGroup was called with the id it was about to allocate, on a store with a group
C11_Witness ==
    /\ last.op = "createGroup"
    /\ last.ret = "null"
    /\ last.groupId = GroupIdText(pre.groupCounter)
    /\ DOMAIN pre.groups # {}
    /\ groupCounter = pre.groupCounter + 1

(***************************************************************************)
(* C12  Placement of a filter added to root.                               *)
(***************************************************************************)
\* C12: addFilterToGroup(store, 'root') on a store whose root has no items creates
\* exactly one new group, with connector AND and referenced from root, puts the new
\* filter's reference in that group and not in root's items, and sets the filter's
\* groupId to the new group's id; when root already has items it creates no group and
\* appends the filter reference to root's items, the filter's groupId being 'root'.
C12_PlacementInRoot ==
    (last.op = "addFilterToGroup" /\ last.groupId = "root")
        => LET g == GroupIdText(pre.groupCounter)
               added == filters[Len(filters)]
           IN  /\ Len(filters) = Len(pre.filters) + 1
               /\ added.id = last.ret
               /\ IF pre.rootGroup.items = <<>>
                  THEN /\ g \notin DOMAIN pre.groups
                       /\ DOMAIN groups = DOMAIN pre.groups \cup {g}
                       /\ \A h \in DOMAIN pre.groups : groups[h] = pre.groups[h]
                       /\ groups[g] = [id |-> g, connector |-> "AND",
                                       items |-> <<FilterItem(last.ret)>>]
                       /\ rootGroup.items = <<GroupItem(g)>>
                       /\ added.groupId = g
                  ELSE /\ groups = pre.groups
                       /\ rootGroup.items = Append(pre.rootGroup.items, FilterItem(last.ret))
                       /\ added.groupId = "root"

\* a filter was added to an empty root, and later one to the root that then had items
C12_Witness ==
    /\ last.op = "addFilterToGroup"
    /\ last.groupId = "root"
    /\ pre.rootGroup.items # <<>>
    /\ \E i \in DOMAIN pre.filters : pre.filters[i].groupId \in DOMAIN pre.groups
    /\ filters[Len(filters)].groupId = "root"

(***************************************************************************)
(* Vocabulary of the properties of a serialized document.                  *)
(***************************************************************************)
IsCondition(node) == "filter_condition" \in DOMAIN node

\* the one key of a connector expression, and the array under it
ConnectorKey(node) == CHOOSE k \in DOMAIN node : TRUE
ConnectorArray(node) == node[ConnectorKey(node)].array

IsConnectorNode(node) ==
    /\ ~ IsNull(node)
    /\ ~ IsCondition(node)
    /\ Cardinality(DOMAIN node) = 1
    /\ DOMAIN node \subseteq {"and", "or"}
    /\ IsArray(node[ConnectorKey(node)])

\* the conditions at the top of a document: none for null, the condition itself for a
\* bare filter condition
DocConditions(doc) ==
    IF IsNull(doc) THEN <<>>
    ELSE IF IsCondition(doc) THEN <<doc>>
    ELSE ConnectorArray(doc)

\* the ids of the filter conditions anywhere in a document
RECURSIVE DocFilterIds(_)
DocFilterIds(doc) ==
    IF IsNull(doc) THEN {}
    ELSE IF IsCondition(doc) THEN {doc.filter_condition.id}
    ELSE UNION {DocFilterIds(ConnectorArray(doc)[i]) : i \in DOMAIN ConnectorArray(doc)}

\* a filter the serializer is to leave out: type or predicate missing, ref '' or null
Unspecified(f) ==
    \/ f.type = ""
    \/ f.predicate = ""
    \/ f.ref = Str("")
    \/ IsNull(f.ref)

\* The conditions stand for some of the items, in the order of the items: a filter
\* condition for a filter item with its id whose filter is specified, a connector
\* expression with at least one condition for a group item, its conditions standing
\* for items of that group in the same way.
RECURSIVE StandFor(_, _, _)
RECURSIVE StandsForItem(_, _, _)
StandFor(conditions, s, items) ==
    IF conditions = <<>> THEN TRUE
    ELSE IF items = <<>> THEN FALSE
    ELSE \/ /\ StandsForItem(Head(conditions), s, Head(items))
            /\ StandFor(Tail(conditions), s, Tail(items))
         \/ StandFor(conditions, s, Tail(items))

StandsForItem(node, s, item) ==
    IF item.type = "filter"
    THEN /\ IsCondition(node)
         /\ node.filter_condition.id = item.id
         /\ \E i \in DOMAIN s.filters :
               s.filters[i].id = item.id /\ ~ Unspecified(s.filters[i])
    ELSE /\ IsConnectorNode(node)
         /\ item.id \in DOMAIN s.groups
         /\ ConnectorArray(node) # <<>>
         /\ StandFor(ConnectorArray(node), s, s.groups[item.id].items)

(***************************************************************************)
(* C13  What the serializer leaves out, and the order of what it keeps.    *)
(***************************************************************************)
\* C13: serializeFiltersToJsonLogic omits every filter whose type or predicate is
\* missing or whose ref is the empty string or null, and omits every group none of
\* whose items (recursively) yields a condition; the conditions that survive in a
\* group appear in the same relative order as the group's items.
C13_OmissionsAndOrder ==
    last.op = "serialize"
        => /\ \A i \in DOMAIN filters :
                 Unspecified(filters[i]) => filters[i].id \notin DocFilterIds(last.doc)
           /\ ~ IsNull(last.doc) => DocConditions(last.doc) # <<>>
           /\ StandFor(DocConditions(last.doc), Store, rootGroup.items)

\* a forest with an unspecified filter, a group that yields nothing and a filter that
\* survives was serialized
C13_Witness ==
    /\ last.op = "serialize"
    /\ ~ IsNull(last.doc)
    /\ \E i \in DOMAIN filters :
          Unspecified(filters[i]) /\ Occurrences(Store, "filter", filters[i].id) # {}
    /\ \E g \in DOMAIN groups :
          /\ Occurrences(Store, "group", g) # {}
          /\ FiltersUnder(Store, g) \cap DocFilterIds(last.doc) = {}

(***************************************************************************)
(* C14  The empty forest and null.                                         *)
(***************************************************************************)
\* a filter reachable from root through items and present groups
ReachableFilters(s) ==
    {i \in DOMAIN s.filters : s.filters[i].id \in FiltersUnder(s, "root")}

\* root has no items, or no filter reachable from root has a non-empty ref
NothingToExport(s) ==
    \/ s.rootGroup.items = <<>>
    \/ \A i \in ReachableFilters(s) :
          \/ s.filters[i].ref = Str("")
          \/ IsNull(s.filters[i].ref)
          \/ IsUndefined(s.filters[i].ref)

CanonicalEmptyForest == [filters |-> <<>>, rootGroup |-> EmptyRoot, groups |-> EmptyMap]

\* C14: serializeFiltersToJsonLogic returns null whenever root has no items or no filter
\* reachable from root has a non-empty ref, and exportFiltersAsJson then returns null,
\* not a string; deserializeFiltersFromJsonLogic(null) returns {filters:[],
\* rootGroup:{id:'root', connector:'AND', items:[]}, groups:{}} and allocates no
\* filter id and no group id.
C14_EmptyForestAndNull ==
    /\ (last.op = "serialize" /\ NothingToExport(Store)) => IsNull(last.doc)
    /\ (last.op = "export" /\ NothingToExport(Store)) => IsNull(last.text)
    /\ (last.op = "deserialize" /\ IsNull(last.doc))
          => /\ last.result = CanonicalEmptyForest
             /\ filterCounter = pre.filterCounter
             /\ groupCounter = pre.groupCounter

\* a forest whose root has items but whose filters all lack a ref was serialized to
\* null, and null was deserialized
C14_Witness ==
    /\ last.op = "deserialize"
    /\ IsNull(last.doc)
    /\ rootGroup.items # <<>>
    /\ ReachableFilters(Store) # {}
    /\ NothingToExport(Store)
    /\ last.result = CanonicalEmptyForest

(***************************************************************************)
(* C15  Root elision.                                                      *)
(***************************************************************************)
\* a filter that yields a condition
Exportable(f) ==
    /\ f.type # ""
    /\ f.predicate \in Predicates
    /\ f.ref # Str("")
    /\ ~ IsNull(f.ref)
    /\ ~ IsUndefined(f.ref)

\* an item that yields a condition: a filter item of an exportable filter, a group item
\* of a group one of whose items yields a condition
RECURSIVE Survives(_, _)
Survives(s, item) ==
    IF item.type = "filter"
    THEN \E i \in DOMAIN s.filters :
            /\ s.filters[i].id = item.id
            /\ \A j \in DOMAIN s.filters : s.filters[j].id = item.id => i <= j
            /\ Exportable(s.filters[i])
    ELSE /\ item.id \in DOMAIN s.groups
         /\ \E k \in DOMAIN s.groups[item.id].items : Survives(s, s.groups[item.id].items[k])

Survivors(s, items) ==
    LET Test(item) == Survives(s, item) IN SelectSeq(items, Test)

\* node is what a surviving item is emitted as: the filter condition with the item's id,
\* or a connector expression holding one node for each surviving item of the group
RECURSIVE Renders(_, _, _)
Renders(node, s, item) ==
    IF item.type = "filter"
    THEN IsCondition(node) /\ node.filter_condition.id = item.id
    ELSE /\ IsConnectorNode(node)
         /\ LET sv == Survivors(s, s.groups[item.id].items) IN
            /\ Len(ConnectorArray(node)) = Len(sv)
            /\ \A k \in DOMAIN sv : Renders(ConnectorArray(node)[k], s, sv[k])

\* C15: when root has exactly one surviving condition and that condition is a filter
\* condition, serializeFiltersToJsonLogic returns that filter_condition object itself,
\* not wrapped in a connector; the elision applies to root only: a non-root group with
\* a single surviving filter condition is emitted as {connector: [condition]}, and a
\* root whose single surviving condition is a connector expression is emitted wrapped.
C15_RootElision ==
    last.op = "serialize"
        => LET sv == Survivors(Store, rootGroup.items) IN
           IF sv = <<>> THEN IsNull(last.doc)
           ELSE IF Len(sv) = 1 /\ sv[1].type = "filter"
           THEN Renders(last.doc, Store, sv[1])
           ELSE /\ IsConnectorNode(last.doc)
                /\ Len(ConnectorArray(last.doc)) = Len(sv)
                /\ \A k \in DOMAIN sv : Renders(ConnectorArray(last.doc)[k], Store, sv[k])

\* a root whose one surviving item is a group whose one surviving item is a filter was
\* serialized: a connector expression in a connector expression
C15_Witness ==
    /\ last.op = "serialize"
    /\ Len(Survivors(Store, rootGroup.items)) = 1
    /\ Len(rootGroup.items) = 2
    /\ IsConnectorNode(last.doc)
    /\ Len(ConnectorArray(last.doc)) = 1
    /\ IsConnectorNode(ConnectorArray(last.doc)[1])
    /\ Len(ConnectorArray(ConnectorArray(last.doc)[1])) = 1
    /\ IsCondition(ConnectorArray(ConnectorArray(last.doc)[1])[1])

(***************************************************************************)
(* C16  Connector wrapping.                                                *)
(***************************************************************************)
\* node is the connector expression of group: one key, the lowercase of the group's
\* connector, over one node for each surviving item of the group, in item order
RECURSIVE Wraps(_, _, _)
Wraps(node, s, group) ==
    /\ IsConnectorNode(node)
    /\ DOMAIN node = {IF group.connector = "AND" THEN "and" ELSE "or"}
    /\ group.connector \in {"AND", "OR"}
    /\ LET sv == Survivors(s, group.items) IN
       /\ Len(ConnectorArray(node)) = Len(sv)
       /\ \A k \in DOMAIN sv :
             IF sv[k].type = "filter"
             THEN /\ IsCondition(ConnectorArray(node)[k])
                  /\ ConnectorArray(node)[k].filter_condition.id = sv[k].id
             ELSE Wraps(ConnectorArray(node)[k], s, s.groups[sv[k].id])

\* root is written as the bare condition of its one surviving filter
Elided(s) ==
    LET sv == Survivors(s, s.rootGroup.items) IN Len(sv) = 1 /\ sv[1].type = "filter"

\* C16: every group that is not elided serializes to an object with exactly one key,
\* 'and' when the group's connector is AND and 'or' when it is OR, whose value is the
\* ordered list of the group's surviving conditions; toggleGroupConnector applied to
\* the root of a forest with two or more surviving root conditions changes the
\* top-level key between 'and' and 'or' and nothing else in the serialized document.
C16_ConnectorWrapping ==
    /\ (last.op = "serialize" /\ Survivors(Store, rootGroup.items) # <<>> /\ ~ Elided(Store))
          => Wraps(last.doc, Store, rootGroup)
    /\ (/\ last.op = "toggleGroupConnector"
        /\ last.groupId = "root"
        /\ Len(Survivors(pre, pre.rootGroup.items)) >= 2)
          => \E a \in {serializeFiltersToJsonLogic(pre.filters, pre.rootGroup, pre.groups)},
                b \in {serializeFiltersToJsonLogic(filters, rootGroup, groups)} :
                /\ IsConnectorNode(a)
                /\ IsConnectorNode(b)
                /\ DOMAIN a # DOMAIN b
                /\ ConnectorArray(a) = ConnectorArray(b)

\* the connector of a root with two surviving conditions, one of them a group, was toggled
C16_Witness ==
    /\ last.op = "toggleGroupConnector"
    /\ last.groupId = "root"
    /\ LET sv == Survivors(pre, pre.rootGroup.items) IN
       /\ Len(sv) >= 2
       /\ \E k \in DOMAIN sv : sv[k].type = "group"
    /\ rootGroup.connector # pre.rootGroup.connector

(***************************************************************************)
(* C17  One filter for each filter_condition node.                         *)
(***************************************************************************)
RECURSIVE DocNodes(_)
RECURSIVE NodesOf(_)

\* the filter_condition objects of a document, in document order
DocNodes(doc) ==
    IF HasTruthy(doc, "filter_condition") THEN <<doc.filter_condition>>
    ELSE IF IsConnectorNode(doc) THEN NodesOf(ConnectorArray(doc))
    ELSE <<>>

NodesOf(conditions) ==
    IF conditions = <<>> THEN <<>>
    ELSE DocNodes(Head(conditions)) \o NodesOf(Tail(conditions))

\* the nodes before place i that carry no id
Allocated(nodes, i) == Cardinality({j \in 1..(i - 1) : "id" \notin DOMAIN nodes[j]})

\* C17: for each filter_condition node deserializeFiltersFromJsonLogic creates one
\* filter; its id is the embedded id when one is present, in which case getNextFilterId
\* is not called and the filter counter is not advanced, and is otherwise the value one
\* call of getNextFilterId returns; type and predicate are copied from the node and ref
\* is a string.
C17_FilterPerNode ==
    last.op = "deserialize"
        => LET nodes == DocNodes(last.doc)
               fs == last.result.filters
           IN  /\ Len(fs) = Len(nodes)
               /\ \A i \in DOMAIN nodes :
                     /\ fs[i].type = nodes[i].type
                     /\ fs[i].predicate = nodes[i].predicate
                     /\ DOMAIN fs[i].ref = {"str"}
                     /\ fs[i].id = IF "id" \in DOMAIN nodes[i] THEN nodes[i].id
                                   ELSE pre.filterCounter + Allocated(nodes, i)
               /\ filterCounter = pre.filterCounter + Allocated(nodes, Len(nodes) + 1)

\* a document with a node that carries an id after a node that carries none was
\* deserialized by a store whose counter had advanced
C17_Witness ==
    /\ last.op = "deserialize"
    /\ pre.filterCounter > 0
    /\ LET nodes == DocNodes(last.doc) IN
       /\ Len(nodes) >= 2
       /\ \E i, j \in DOMAIN nodes :
             i < j /\ "id" \notin DOMAIN nodes[i] /\ "id" \in DOMAIN nodes[j]
       /\ filterCounter = pre.filterCounter + 1

(***************************************************************************)
(* C18  A bare filter condition.                                           *)
(***************************************************************************)
\* C18: deserializing a document that is a single bare filter_condition yields a root
\* group {id:'root', connector:'AND', items:[one filter item]}, a filter list holding
\* that one filter with groupId 'root', and an empty group mapping.
C18_BareCondition ==
    last.op = "deserialize" /\ HasTruthy(last.doc, "filter_condition")
        => /\ Len(last.result.filters) = 1
           /\ last.result.filters[1].groupId = "root"
           /\ last.result.rootGroup =
                 [id |-> "root", connector |-> "AND",
                  items |-> <<FilterItem(last.result.filters[1].id)>>]
           /\ DOMAIN last.result.groups = {}

\* a bare condition without id was deserialized by a store whose counter had advanced
C18_Witness ==
    /\ last.op = "deserialize"
    /\ HasTruthy(last.doc, "filter_condition")
    /\ "id" \notin DOMAIN last.doc.filter_condition
    /\ pre.filterCounter > 0
    /\ Len(last.result.rootGroup.items) = 1

(***************************************************************************)
(* C19  importFiltersFromJson on what is not a document.                   *)
(***************************************************************************)
\* the argument is not a string, is not the text of a JSON value, or is the text of a
\* value that is neither a filter_condition nor a one-key 'and'/'or' object over a
\* non-empty array
NotADocument(text) ==
    \/ ~ IsString(text)
    \/ "raw" \in DOMAIN text
    \/ /\ "json" \in DOMAIN text
       /\ ~ HasTruthy(text.json, "filter_condition")
       /\ ~ (IsConnectorNode(text.json) /\ Len(ConnectorArray(text.json)) > 0)

\* C19: importFiltersFromJson never throws, and returns the canonical empty forest for
\* the empty string, a whitespace-only string, the text 'null', a non-string argument,
\* text that is not valid JSON, and valid JSON whose top-level shape is neither a
\* filter_condition nor a single-key 'and'/'or' object with a non-empty array.
C19_ImportNeverThrows ==
    last.op = "importFiltersFromJson"
        => /\ ~ last.threw
           /\ NotADocument(last.text) => last.result = CanonicalEmptyForest

\* text that is not JSON was imported
C19_Witness ==
    /\ last.op = "importFiltersFromJson"
    /\ last.text = Raw("{not valid json")
    /\ last.result = CanonicalEmptyForest

(***************************************************************************)
(* C20  removeFilter: effect, frame and idempotence.                       *)
(***************************************************************************)
\* items without the filter items with the given id, the rest in place
WithoutFilterItem(items, id) ==
    LET Other(item) == item.type # "filter" \/ item.id # id IN SelectSeq(items, Other)

WithoutFilter(fs, id) ==
    LET Other(f) == f.id # id IN SelectSeq(fs, Other)

\* C20: removeFilter(store, id) removes the filter with that id from the filter list and
\* every item {type:'filter', id} from root's items and from every group's items; it
\* leaves every other filter, every other item, every connector, the set of groups and
\* both counters unchanged, and applying it a second time with the same id changes
\* nothing.
C20_RemoveFilterFrame ==
    last.op = "removeFilter"
        => /\ filters = WithoutFilter(pre.filters, last.filterId)
           /\ rootGroup = [pre.rootGroup EXCEPT
                              !.items = WithoutFilterItem(@, last.filterId)]
           /\ DOMAIN groups = DOMAIN pre.groups
           /\ \A g \in DOMAIN groups :
                 groups[g] = [pre.groups[g] EXCEPT
                                 !.items = WithoutFilterItem(@, last.filterId)]
           /\ filterCounter = pre.filterCounter
           /\ groupCounter = pre.groupCounter
           /\ removeFilter(Store, last.filterId) = Store

\* a filter that stood in a group beside another item was removed, and another filter
\* is left
C20_Witness ==
    /\ last.op = "removeFilter"
    /\ Len(filters) >= 1
    /\ Len(filters) < Len(pre.filters)
    /\ \E g \in DOMAIN groups :
          /\ Len(groups[g].items) >= 1
          /\ Len(groups[g].items) < Len(pre.groups[g].items)

(***************************************************************************)
(* C21  toggleGroupConnector: effect, frame and involution.                *)
(***************************************************************************)
\* AND for OR and OR for AND
Opposite(a, b) == {a, b} = {"AND", "OR"}

\* C21: toggleGroupConnector(store, g), for g = 'root' or a group present in the mapping
\* whose connector is AND or OR, changes that group's connector to the other value and
\* changes nothing else (its items, every other group, the filter list and both
\* counters are unchanged); applying it twice to the same group restores the state
\* before the first call.
C21_ToggleInvolution ==
    (/\ last.op = "toggleGroupConnector"
     /\ last.groupId \in {"root"} \cup DOMAIN pre.groups)
        => /\ filters = pre.filters
           /\ filterCounter = pre.filterCounter
           /\ groupCounter = pre.groupCounter
           /\ IF last.groupId = "root"
              THEN /\ Opposite(rootGroup.connector, pre.rootGroup.connector)
                   /\ rootGroup = [pre.rootGroup EXCEPT !.connector = rootGroup.connector]
                   /\ groups = pre.groups
              ELSE /\ rootGroup = pre.rootGroup
                   /\ DOMAIN groups = DOMAIN pre.groups
                   /\ \A g \in DOMAIN groups :
                         IF g = last.groupId
                         THEN /\ Opposite(groups[g].connector, pre.groups[g].connector)
                              /\ groups[g] = [pre.groups[g] EXCEPT
                                                 !.connector = groups[g].connector]
                         ELSE groups[g] = pre.groups[g]
           /\ toggleGroupConnector(Store, last.groupId) = pre

\* the connector of a group that holds items went from OR to AND
C21_Witness ==
    /\ last.op = "toggleGroupConnector"
    /\ last.groupId \in DOMAIN pre.groups
    /\ pre.groups[last.groupId].connector = "OR"
    /\ groups[last.groupId].connector = "AND"
    /\ Len(groups[last.groupId].items) >= 1

(***************************************************************************)
(* C22  updateFilter: effect and frame.                                    *)
(***************************************************************************)
\* C22: updateFilter(store, id, updates), with updates a subset of {type, predicate,
\* ref}, changes exactly the named fields of the filter with that id, keeps that
\* filter's id, groupId and position in the filter list, and leaves every other filter,
\* the group mapping, the root group and both counters unchanged.
C22_UpdateFilterFrame ==
    (last.op = "updateFilter" /\ DOMAIN last.updates \subseteq {"type", "predicate", "ref"})
        => /\ Len(filters) = Len(pre.filters)
           /\ \A i \in DOMAIN pre.filters :
                 IF pre.filters[i].id = last.filterId
                 THEN /\ DOMAIN filters[i] = DOMAIN pre.filters[i]
                      /\ \A k \in DOMAIN last.updates : filters[i][k] = last.updates[k]
                      /\ \A k \in DOMAIN pre.filters[i] \ DOMAIN last.updates :
                            filters[i][k] = pre.filters[i][k]
                      /\ filters[i].id = last.filterId
                      /\ filters[i].groupId = pre.filters[i].groupId
                 ELSE filters[i] = pre.filters[i]
           /\ groups = pre.groups
           /\ rootGroup = pre.rootGroup
           /\ filterCounter = pre.filterCounter
           /\ groupCounter = pre.groupCounter

\* type and predicate of the second of two filters with different ids were changed
C22_Witness ==
    /\ last.op = "updateFilter"
    /\ "type" \in DOMAIN last.updates
    /\ Len(filters) >= 2
    /\ filters[2].id = last.filterId
    /\ filters[1].id # last.filterId
    /\ filters[2].type # pre.filters[2].type
    /\ filters[1].type # filters[2].type

(***************************************************************************)
(* C23  Id allocation is monotonic.                                        *)
(***************************************************************************)
\* the text 'group-<n>' for a number n
HasGroupIdForm(id) == \E n \in 0..MaxGroupIndex : id = GroupIdText(n)

\* C23: within one store's lifetime, across any sequence of mutation operations,
\* imports and resetFilters calls, getNextFilterId returns a value strictly greater
\* than every value it returned before and getNextGroupId never returns a string it
\* returned before; every group id it returns has the exact form 'group-<n>'.
C23_AllocationMonotonic ==
    /\ \A i, j \in DOMAIN issued.filterIds :
          i < j => issued.filterIds[i] < issued.filterIds[j]
    /\ \A i, j \in DOMAIN issued.groupIds :
          i < j => issued.groupIds[i] # issued.groupIds[j]
    /\ \A i \in DOMAIN issued.groupIds : HasGroupIdForm(issued.groupIds[i])

(***************************************************************************)
(* C24  Schema validity.                                                   *)
(***************************************************************************)
\* C24: with a fixed schema whose entries all have non-empty relations, after any
\* sequence of addFilterToGroup calls and of field changes made through the FilterRow
\* change handler (a type chosen from the schema names, a predicate chosen from the
\* relations offered for the filter's current type, or any ref), every filter in the
\* store has a type that is the name of a schema entry and a predicate that is one of
\* that entry's relations.
C24_SchemaValidity ==
    \A i \in DOMAIN filters :
        \E k \in DOMAIN filterSchema :
            /\ filterSchema[k].name = filters[i].type
            /\ \E r \in DOMAIN filterSchema[k].relations :
                  filterSchema[k].relations[r] = filters[i].predicate

\* the type of a filter was changed to one that does not offer the filter's predicate
C24_Witness ==
    /\ last.op = "handleChange"
    /\ last.field = "type"
    /\ \E i \in DOMAIN filters :
          /\ filters[i].id = last.filterId
          /\ filters[i].type # pre.filters[i].type
          /\ filters[i].predicate # pre.filters[i].predicate

(***************************************************************************)
(* C25  Nested connectors on import.                                       *)
(***************************************************************************)
RECURSIVE WellFormed(_)
RECURSIVE Mirrors(_, _, _)
RECURSIVE NestedConnectors(_)

\* a document of the expression grammar: a filter condition, or a connector expression
\* over one or more documents
WellFormed(doc) ==
    \/ HasTruthy(doc, "filter_condition")
    \/ /\ IsConnectorNode(doc)
       /\ Len(ConnectorArray(doc)) > 0
       /\ \A k \in DOMAIN ConnectorArray(doc) : WellFormed(ConnectorArray(doc)[k])

\* the connector expressions below a node
NestedConnectors(node) ==
    IF ~ IsConnectorNode(node) THEN 0
    ELSE LET arr == ConnectorArray(node)
             Sum[k \in 0..Len(arr)] ==
                 IF k = 0 THEN 0
                 ELSE Sum[k - 1] + NestedConnectors(arr[k])
                        + (IF IsConnectorNode(arr[k]) THEN 1 ELSE 0)
         IN  Sum[Len(arr)]

\* group is what the connector expression node became in the forest res: its connector,
\* and one item for each child in document order, a filter item for a filter condition
\* and a group item of a registered group for a connector expression
Mirrors(node, res, group) ==
    /\ group.connector = (IF DOMAIN node = {"or"} THEN "OR" ELSE "AND")
    /\ Len(group.items) = Len(ConnectorArray(node))
    /\ \A k \in DOMAIN ConnectorArray(node) :
          LET child == ConnectorArray(node)[k]
              item == group.items[k]
          IN  IF IsConnectorNode(child)
              THEN /\ item.type = "group"
                   /\ item.id \in DOMAIN res.groups
                   /\ res.groups[item.id].id = item.id
                   /\ Mirrors(child, res, res.groups[item.id])
              ELSE /\ item.type = "filter"
                   /\ "id" \in DOMAIN child.filter_condition
                         => item.id = child.filter_condition.id

\* the group items with id g among the items of root and of the groups of res
GroupReferences(res, g) ==
    LET In(items) == Cardinality({k \in DOMAIN items : IsGroupItem(items[k], g)})
        keys == DOMAIN res.groups
        Sum[S \in SUBSET keys] ==
            IF S = {} THEN 0
            ELSE LET h == CHOOSE x \in S : TRUE
                 IN  In(res.groups[h].items) + Sum[S \ {h}]
    IN  In(res.rootGroup.items) + Sum[keys]

\* C25: when deserializeFiltersFromJsonLogic processes a connector expression, each
\* direct child that is itself a connector expression yields exactly one new group
\* registered in the mapping under a freshly allocated id that no other group in the
\* result uses, carrying that child's connector and its children in document order, and
\* referenced by exactly one group item in the parent's items; each direct child that
\* is a filter_condition yields a filter item directly in the parent's items (root's
\* items for the top-level connector) and no group is allocated for it.
C25_NestedConnectors ==
    (last.op = "deserialize" /\ IsConnectorNode(last.doc) /\ WellFormed(last.doc))
        => /\ Mirrors(last.doc, last.result, last.result.rootGroup)
           /\ Cardinality(DOMAIN last.result.groups) = NestedConnectors(last.doc)
           /\ \A g \in DOMAIN last.result.groups :
                 /\ GroupReferences(last.result, g) = 1
                 /\ \E n \in pre.groupCounter..(groupCounter - 1) : g = GroupIdText(n)

\* a connector expression with a filter condition between two connector expressions was
\* deserialized by a store whose group counter had advanced
C25_Witness ==
    /\ last.op = "deserialize"
    /\ WellFormed(last.doc)
    /\ IsConnectorNode(last.doc)
    /\ pre.groupCounter > 0
    /\ Cardinality(DOMAIN last.result.groups) = 2
    /\ Len(last.result.rootGroup.items) = 3
    /\ last.result.rootGroup.items[2].type = "filter"

(***************************************************************************)
(* C26  groupId of imported filters.                                       *)
(***************************************************************************)
\* C26: in the forest returned by deserializeFiltersFromJsonLogic, every filter's
\* groupId equals the id ('root' or a key of the returned group mapping) of the group
\* whose items contain the reference to that filter.
C26_GroupIdIsPlacement ==
    last.op = "deserialize"
        => \A i \in DOMAIN last.result.filters :
              LET f == last.result.filters[i] IN
              /\ f.groupId \in GroupKeys(last.result)
              /\ \E k \in DOMAIN ItemsOf(last.result, f.groupId) :
                    IsFilterItem(ItemsOf(last.result, f.groupId)[k], f.id)

(***************************************************************************)
(* C27  Copy-on-write.                                                     *)
(***************************************************************************)
\* C27: no mutation operation modifies in place an object that is already reachable
\* from store.filters, store.groups or store.rootGroup; a reader that took the value of
\* one of these fields (or a filter or group object inside it) at any moment, including
\* between two steps of one operation, finds that value unchanged after every later
\* step of every operation.
C27_CopyOnWrite ==
    \A h \in DOMAIN held : held[h].sees = held[h].taken

\* the assignments of a call that has returned amount to addFilterToGroup
StepsAmountToCall ==
    ("line" \in DOMAIN last /\ Returned)
        => Store = addFilterToGroup(pre, last.groupId).store

(***************************************************************************)
(* C28  Export is stable under re-import.                                  *)
(***************************************************************************)
\* the document serializeFiltersToJsonLogic gives back for what
\* deserializeFiltersFromJsonLogic(doc, ...) built with counters at fc and gc
Reexported(doc, fc, gc) ==
    Pick({ serializeFiltersToJsonLogic(r.filters, r.rootGroup, r.groups)
           : r \in {deserializeFiltersFromJsonLogic(doc, fc, gc)} })

\* C28: for any forest F with pairwise distinct filter ids, serializeFiltersToJsonLogic
\* applied to deserializeFiltersFromJsonLogic(serializeFiltersToJsonLogic(F)) returns a
\* document equal to serializeFiltersToJsonLogic(F), whatever the values of the filter
\* and group counters used during the import.
C28_ExportStable ==
    /\ (last.op = "serialize" /\ DistinctFilterIds(filters))
          => \A fc \in 0..MaxStartCounter + 1, gc \in 0..MaxStartCounter + 1 :
                Reexported(last.doc, fc, gc) = last.doc
    /\ (last.op = "deserialize" /\ DistinctFilterIds(filters)
          /\ last.doc = serializeFiltersToJsonLogic(filters, rootGroup, groups))
          => serializeFiltersToJsonLogic(last.result.filters, last.result.rootGroup,
                                         last.result.groups) = last.doc

\* a forest with a nested group was serialized to a document with two conditions, the
\* document was deserialized, and the groups built carry other ids than the forest's
C28_Witness ==
    /\ last.op = "deserialize"
    /\ DistinctFilterIds(filters)
    /\ last.doc = serializeFiltersToJsonLogic(filters, rootGroup, groups)
    /\ Len(DocConditions(last.doc)) = 2
    /\ DOMAIN last.result.groups # {}
    /\ DOMAIN last.result.groups # DOMAIN groups

C29_WitnessFile ==
    /\ last.op = "import"
    /\ last.via = "file"
    /\ last.text = JsonText([and |-> Arr(<<>>)])
    /\ pre.filters # <<>>

(***************************************************************************)
(* C30  Termination of the recursions over group items.                    *)
(*                                                                         *)
(* The two recursions are followed call by call, at most MaxEntries calls  *)
(* deep, with the groups whose items a call iterates written down in       *)
(* order.  `exhausted` says the depth was not enough.                      *)
(***************************************************************************)
RECURSIVE RemoveGroupEntered(_, _, _)
RECURSIVE RemoveGroupItemsEntered(_, _, _)

\* the forEach of removeGroup over the items of the group found
RemoveGroupItemsEntered(s, items, depth) ==
    IF items = <<>> THEN [store |-> s, entered |-> <<>>, exhausted |-> FALSE]
    ELSE LET item == Head(items)
             KeepF(f) == f.id # item.id
         IN  Pick({ IF first.exhausted THEN first
                    ELSE Pick({ [store |-> rest.store,
                                 entered |-> first.entered \o rest.entered,
                                 exhausted |-> rest.exhausted]
                                : rest \in {RemoveGroupItemsEntered(first.store, Tail(items),
                                                                    depth)} })
                    : first \in { IF item.type = "filter"
                                  THEN [store |-> [s EXCEPT !.filters = SelectSeq(@, KeepF)],
                                        entered |-> <<>>, exhausted |-> FALSE]
                                  ELSE IF item.type = "group"
                                  THEN RemoveGroupEntered(s, item.id, depth)
                                  ELSE [store |-> s, entered |-> <<>>, exhausted |-> FALSE] } })

\* removeGroup(store, groupId): the store it leaves and the groups it entered
RemoveGroupEntered(s, groupId, depth) ==
    IF depth = 0 THEN [store |-> s, entered |-> <<>>, exhausted |-> TRUE]
    ELSE Pick({ IF r.exhausted THEN r
                ELSE LET s2 == [r.store EXCEPT !.groups = DeleteKey(@, groupId)]
                         s3 == [s2 EXCEPT !.rootGroup = StripGroupRef(@, groupId)]
                     IN  [store |-> [s3 EXCEPT !.groups =
                                        [id \in DOMAIN s3.groups |->
                                            StripGroupRef(s3.groups[id], groupId)]],
                          entered |-> r.entered,
                          exhausted |-> FALSE]
                : r \in { IF groupId \in DOMAIN s.groups
                          THEN Pick({ [i EXCEPT !.entered = <<groupId>> \o @]
                                      : i \in {RemoveGroupItemsEntered(s, s.groups[groupId].items,
                                                                       depth - 1)} })
                          ELSE [store |-> s, entered |-> <<>>, exhausted |-> FALSE] } })

RECURSIVE GroupToJsonLogicEntered(_, _, _)
RECURSIVE GroupItemsEntered(_, _, _)

\* the loop of groupToJsonLogic over group.items
GroupItemsEntered(gs, items, depth) ==
    IF items = <<>> THEN [entered |-> <<>>, exhausted |-> FALSE]
    ELSE LET item == Head(items)
         IN  Pick({ IF first.exhausted THEN first
                    ELSE Pick({ [entered |-> first.entered \o rest.entered,
                                 exhausted |-> rest.exhausted]
                                : rest \in {GroupItemsEntered(gs, Tail(items), depth)} })
                    : first \in { IF item.type = "group" /\ item.id \in DOMAIN gs
                                  THEN GroupToJsonLogicEntered(gs, gs[item.id], depth)
                                  ELSE [entered |-> <<>>, exhausted |-> FALSE] } })

\* groupToJsonLogic(group): the groups whose items it iterated
GroupToJsonLogicEntered(gs, group, depth) ==
    IF depth = 0 THEN [entered |-> <<>>, exhausted |-> TRUE]
    ELSE IF Len(group.items) = 0 THEN [entered |-> <<>>, exhausted |-> FALSE]
    ELSE Pick({ [i EXCEPT !.entered = <<group.id>> \o @]
                : i \in {GroupItemsEntered(gs, group.items, depth - 1)} })

NoRepeats(seq) == \A i, j \in DOMAIN seq : seq[i] = seq[j] => i = j

\* C30: in every state reachable from createFilterStore by any sequence of mutation
\* operations and imports, removeGroup(store, g) for any g and
\* serializeFiltersToJsonLogic on the store's forest terminate, their recursion over
\* group items entering each group at most once.
C30_RecursionsTerminate ==
    /\ \A g \in GroupTargets \cup DOMAIN groups :
          \E r \in {RemoveGroupEntered(Store, g, MaxEntries)} :
             /\ ~ r.exhausted
             /\ NoRepeats(r.entered)
             /\ r.store = removeGroup(Store, g)
    /\ \E r \in {GroupToJsonLogicEntered(groups, rootGroup, MaxEntries)} :
          /\ ~ r.exhausted
          /\ NoRepeats(r.entered)

\* a forest with a group inside a group inside root: removeGroup of the outer group
\* enters two groups and the serializer three
C30_Witness ==
    /\ \E g \in DOMAIN groups :
          Len(RemoveGroupEntered(Store, g, MaxEntries).entered) >= 2
    /\ Len(GroupToJsonLogicEntered(groups, rootGroup, MaxEntries).entered) >= 3

====
